---------------------------- MODULE Spec2Model ----------------------------
(***************************************************************************)
(* A model of collectd's pcie_errors plugin (src/src/pcie_errors.c).       *)
(*                                                                         *)
(* A register value is modelled as the set of the numbers of its bits that *)
(* are 1 (bit 0 is the least significant): `a & b' is the intersection,    *)
(* `a & b' is non-zero iff the intersection is non-empty, 0 is {}.  The    *)
(* bytes of a configuration space that the capability walks read are kept  *)
(* as numbers.                                                             *)
(***************************************************************************)
EXTENDS Integers, Sequences, FiniteSets, TLC

(***************************************************************************)
(* Bounds of the model.                                                    *)
(***************************************************************************)
\* The largest number of entries the platform's device directory holds.
MaxDevices == 2

(***************************************************************************)
(* Constants of <linux/pci_regs.h> and of the plugin.                      *)
(***************************************************************************)
PCI_STATUS == 6
PCI_STATUS_CAP_LIST == 4          \* bit number of 0x10
PCI_CAPABILITY_LIST == 52         \* 0x34
PCI_CAP_LIST_ID == 0
PCI_CAP_LIST_NEXT == 1
PCI_CAP_ID_EXP == 16              \* 0x10
PCI_EXP_DEVSTA == 10
PCI_EXT_CAP_ID_ERR == 1
PCI_ERR_UNCOR_STATUS == 4
PCI_ERR_UNCOR_MASK == 8
PCI_ERR_UNCOR_SEVER == 12
PCI_ERR_COR_STATUS == 16
PCI_ERR_COR_MASK == 20
PCIE_ECAP_OFFSET == 256           \* 0x100

\* Bit numbers of the Device Status error bits.
PCI_EXP_DEVSTA_CED == 0
PCI_EXP_DEVSTA_NFED == 1
PCI_EXP_DEVSTA_FED == 2
PCI_EXP_DEVSTA_URD == 3

PCIE_ERROR == "pcie_error"
PCIE_SEV_CE == "correctable"
PCIE_SEV_FATAL == "fatal"
PCIE_SEV_NOFATAL == "non_fatal"

NOTIF_FAILURE == "failure"
NOTIF_WARNING == "warning"
NOTIF_OKAY == "okay"

\* A capability offset that is absent (find functions return -1).
Absent == 0 - 1

(***************************************************************************)
(* The three error catalogs, in the order of the arrays.  mask is the      *)
(* number of the catalog entry's single bit.                               *)
(***************************************************************************)
pcie_base_errors ==
  << [mask |-> PCI_EXP_DEVSTA_CED,  desc |-> "Correctable Error"],
     [mask |-> PCI_EXP_DEVSTA_NFED, desc |-> "Non-Fatal Error"],
     [mask |-> PCI_EXP_DEVSTA_FED,  desc |-> "Fatal Error"],
     [mask |-> PCI_EXP_DEVSTA_URD,  desc |-> "Unsupported Request"] >>

pcie_aer_ues ==
  << [mask |-> 4,  desc |-> "Data Link Protocol"],
     [mask |-> 5,  desc |-> "Surprise Down"],
     [mask |-> 12, desc |-> "Poisoned TLP"],
     [mask |-> 13, desc |-> "Flow Control Protocol"],
     [mask |-> 14, desc |-> "Completion Timeout"],
     [mask |-> 15, desc |-> "Completer Abort"],
     [mask |-> 16, desc |-> "Unexpected Completion"],
     [mask |-> 17, desc |-> "Receiver Overflow"],
     [mask |-> 18, desc |-> "Malformed TLP"],
     [mask |-> 19, desc |-> "ECRC Error Status"],
     [mask |-> 20, desc |-> "Unsupported Request"],
     [mask |-> 21, desc |-> "ACS Violation"],
     [mask |-> 22, desc |-> "Internal"],
     [mask |-> 23, desc |-> "MC blocked TLP"],
     [mask |-> 24, desc |-> "Atomic egress blocked"],
     [mask |-> 25, desc |-> "TLP prefix blocked"] >>

pcie_aer_ces ==
  << [mask |-> 0,  desc |-> "Receiver Error Status"],
     [mask |-> 6,  desc |-> "Bad TLP Status"],
     [mask |-> 7,  desc |-> "Bad DLLP Status"],
     [mask |-> 8,  desc |-> "REPLAY_NUM Rollover"],
     [mask |-> 12, desc |-> "Replay Timer Timeout"],
     [mask |-> 13, desc |-> "Advisory Non-Fatal"],
     [mask |-> 14, desc |-> "Corrected Internal"],
     [mask |-> 15, desc |-> "Header Log Overflow"] >>

\* `mask & value' is non-zero.
Has(mask, value) == mask \in value

(***************************************************************************)
(* The platform: the devices a directory listing can name, each with the   *)
(* bytes of its configuration space (bytes not listed are 0) and the size  *)
(* of its config file.                                                     *)
(***************************************************************************)
Bdf(dom, bus, dev, fn) == [domain |-> dom, bus |-> bus, device |-> dev, function |-> fn]

\* PCI Express device with AER: PM capability at 0x40 (next pointer 0x61,
\* low bits set), Express at 0x60; extended list 0x100 (serial number) -> 0x140 (AER).
CfgAer ==
  [size |-> 4096,
   bytes |-> (6 :> 16) @@ (52 :> 64) @@ (64 :> 1) @@ (65 :> 97) @@ (96 :> 16) @@ (97 :> 0)
             @@ (256 :> 3) @@ (257 :> 0) @@ (258 :> 1) @@ (259 :> 20)
             @@ (320 :> 1) @@ (321 :> 0) @@ (322 :> 1) @@ (323 :> 0)]

\* PCI Express device without AER: Express capability first in the list,
\* config file of 256 bytes (a read at 0x100 is short).
CfgExp ==
  [size |-> 256,
   bytes |-> (6 :> 16) @@ (52 :> 64) @@ (64 :> 16) @@ (65 :> 0)]

\* Conventional PCI device: a capability list without the Express capability.
CfgNoExp ==
  [size |-> 256,
   bytes |-> (6 :> 16) @@ (52 :> 64) @@ (64 :> 5) @@ (65 :> 0)]

\* Status register without the Capabilities List bit, while the bytes at the
\* capability pointer look like an Express capability.
CfgNoList ==
  [size |-> 256,
   bytes |-> (6 :> 0) @@ (52 :> 64) @@ (64 :> 16) @@ (65 :> 0)]

\* A capability list whose next pointers form a cycle 0x40 -> 0x48 -> 0x40.
CfgCyclic ==
  [size |-> 256,
   bytes |-> (6 :> 16) @@ (52 :> 64) @@ (64 :> 1) @@ (65 :> 72) @@ (72 :> 5) @@ (73 :> 64)]

Platform ==
  { [id |-> Bdf(0, 0, 3, 0), cfg |-> CfgAer],
    [id |-> Bdf(0, 2, 31, 3), cfg |-> CfgExp],
    [id |-> Bdf(0, 3, 0, 0), cfg |-> CfgNoExp],
    [id |-> Bdf(0, 4, 0, 0), cfg |-> CfgNoList],
    [id |-> Bdf(1, 0, 1, 0), cfg |-> CfgCyclic] }

DevId(dev) == Bdf(dev.domain, dev.bus, dev.device, dev.function)

ConfigSpace(dev) == (CHOOSE p \in Platform : p.id = DevId(dev)).cfg

ByteAt(cfg, pos) == IF pos \in DOMAIN cfg.bytes THEN cfg.bytes[pos] ELSE 0


(***************************************************************************)
(* Register access during the capability walks.  pcie_read succeeds iff    *)
(* pread returns all `size' bytes; a read past the end of the config file  *)
(* is short.  The 8/16/32-bit reads return 0 when pcie_read fails.         *)
(***************************************************************************)
pcie_read(cfg, size, pos) == pos + size <= cfg.size

pcie_read8(cfg, pos) ==
  IF pcie_read(cfg, 1, pos) THEN ByteAt(cfg, pos) ELSE 0

pcie_read16(cfg, pos) ==
  IF pcie_read(cfg, 2, pos) THEN ByteAt(cfg, pos) + 256 * ByteAt(cfg, pos + 1) ELSE 0

pcie_read32(cfg, pos) ==
  IF pcie_read(cfg, 4, pos)
  THEN ByteAt(cfg, pos) + 256 * ByteAt(cfg, pos + 1)
       + 65536 * ByteAt(cfg, pos + 2) + 16777216 * ByteAt(cfg, pos + 3)
  ELSE 0

\* A faulty mask: the low 2 bits are kept.
ClearLow2_Keep(x) == x

\* x & ~3
ClearLow2(x) == (x \div 4) * 4

\* PCI_EXT_CAP_ID(header) and PCI_EXT_CAP_NEXT(header) of <linux/pci_regs.h>
PCI_EXT_CAP_ID(header) == header % 65536
PCI_EXT_CAP_NEXT(header) == ClearLow2((header \div 1048576) % 4096)

\* The result of a walk whose loop never exits (it comes back to an offset it
\* has read before, and the bytes read do not change).
Hang == 0 - 2

(***************************************************************************)
(* pcie_find_cap_exp: the loop from offset pos, seen being the offsets     *)
(* the loop has visited.                                                   *)
(***************************************************************************)
RECURSIVE CapExpLoop(_, _, _)
CapExpLoop(cfg, pos, seen) ==
  IF pos = 0 THEN Absent
  ELSE IF pos \in seen THEN Hang
  ELSE LET id == pcie_read8(cfg, pos + PCI_CAP_LIST_ID) IN
       IF id = 255 THEN Absent
       ELSE IF id = PCI_CAP_ID_EXP THEN pos
       ELSE CapExpLoop(cfg, ClearLow2(pcie_read8(cfg, pos + PCI_CAP_LIST_NEXT)),
                       seen \cup {pos})

pcie_find_cap_exp(cfg) ==
  CapExpLoop(cfg, ClearLow2(pcie_read8(cfg, PCI_CAPABILITY_LIST)), {})

(***************************************************************************)
(* pcie_find_ecap_aer: the while loop from `next'.                         *)
(***************************************************************************)
RECURSIVE EcapAerLoop(_, _, _)
EcapAerLoop(cfg, next, seen) ==
  IF next = 0 THEN Absent
  ELSE IF next <= PCIE_ECAP_OFFSET THEN Absent
  ELSE IF next \in seen THEN Hang
  ELSE LET header == pcie_read32(cfg, next) IN
       IF PCI_EXT_CAP_ID(header) = PCI_EXT_CAP_ID_ERR THEN next
       ELSE EcapAerLoop(cfg, PCI_EXT_CAP_NEXT(header), seen \cup {next})

\* A faulty walk: the header at 0x100 is not tested for the AER ID.
pcie_find_ecap_aer_SkipFirst(cfg) ==
  LET pos == PCIE_ECAP_OFFSET
      header == pcie_read32(cfg, pos)
      id == PCI_EXT_CAP_ID(header)
      next == PCI_EXT_CAP_NEXT(header)
  IN IF id = 0 /\ next = 0 THEN Absent
     ELSE EcapAerLoop(cfg, next, {})

pcie_find_ecap_aer(cfg) ==
  LET pos == PCIE_ECAP_OFFSET
      header == pcie_read32(cfg, pos)
      id == PCI_EXT_CAP_ID(header)
      next == PCI_EXT_CAP_NEXT(header)
  IN IF id = 0 /\ next = 0 THEN Absent
     ELSE IF id = PCI_EXT_CAP_ID_ERR THEN pos
     ELSE EcapAerLoop(cfg, next, {})


(***************************************************************************)
(* Notifications.  message holds the format string and its arguments.      *)
(***************************************************************************)
Notification(severity, plugin_instance, type, type_instance, fmt, args) ==
  [severity |-> severity, plugin_instance |-> plugin_instance, type |-> type,
   type_instance |-> type_instance, message |-> [fmt |-> fmt, args |-> args]]

RECURSIVE Concat(_)
Concat(seqs) == IF seqs = <<>> THEN <<>> ELSE Head(seqs) \o Concat(Tail(seqs))

(***************************************************************************)
(* The record of a run: for each device and Device Status bit whether the  *)
(* last event dispatched for it was a 'set' event; the AER bits that are   *)
(* set in a baseline and for which no 'set' event was dispatched since     *)
(* they became set (kept when aer_tracked); the parsers read so far;       *)
(* FirstFullRead as configured.                                            *)
(***************************************************************************)
NoHistory ==
  [status_set |-> {}, aer_tracked |-> FALSE, unreported |-> {}, parsers_read |-> {},
   replay |-> FALSE]

\* The bits of the catalog for which events holds a notification of this format.
NotifiedBits(events, fmt, catalog) ==
  {catalog[k].mask : k \in {k \in 1..Len(catalog) :
      \E j \in 1..Len(events) :
        /\ events[j].message.fmt = fmt
        /\ events[j].message.args[Len(events[j].message.args)] = catalog[k].desc}}

\* The record after the check of the Device Status register of device dev.
RecordDevStatus(h, dev, events) ==
  [h EXCEPT !.status_set =
     (h.status_set
        \cup {<<dev, b>> : b \in NotifiedBits(events, "Device Status Error set: %s",
                                              pcie_base_errors)})
     \ {<<dev, b>> : b \in NotifiedBits(events, "Device Status Error cleared: %s",
                                        pcie_base_errors)}]

\* The record after the check of an AER status register of device dev: old
\* the baseline, new the status read, reported the bits with a 'set' event.
RecordAer(h, dev, group, catalog, old, new, reported) ==
  IF ~h.aer_tracked THEN h ELSE
  [h EXCEPT !.unreported =
     { u \in h.unreported : ~(u[1] = dev /\ u[2] = group) }
     \cup { <<dev, group, catalog[k].mask>> : k \in
              {k \in 1..Len(catalog) :
                 /\ catalog[k].mask \in new
                 /\ catalog[k].mask \notin reported
                 /\ \/ catalog[k].mask \notin old
                    \/ <<dev, group, catalog[k].mask>> \in h.unreported} }]


(***************************************************************************)
(* The program's state.                                                    *)
(***************************************************************************)
VARIABLES
  pcie_config,    \* the configuration flags
  pcie_dev_list,  \* the device registry, a sequence of device records (<<>> when NULL or empty)
  pc,             \* where the host and the running handler are
  e,              \* pcie_process_devices: the position of the loop in the list
  ret,            \* pcie_process_devices: its local ret
  pass,           \* per device of the running (or last) pass: whether it opened
  rc,             \* the value the last handler returned
  pcie_parsers,   \* the message parsers (<<>> when NULL)
  parser_i,       \* pcie_plugin_read: the index of the loop over the parsers
  pcie_parsers_len, \* the number of parsers
  history,        \* what the steps taken so far have dispatched and read
  last            \* the last step taken: what it read and what it dispatched

vars == <<pcie_config, pcie_dev_list, pc, e, ret, pass, rc, pcie_parsers, parser_i,
          pcie_parsers_len, history, last>>

(***************************************************************************)
(* Values the hardware registers take during polling.  Bit 5 of Device     *)
(* Status (Transactions Pending) and bit 0 of the uncorrectable status     *)
(* (Undefined) are outside the catalogs.                                   *)
(***************************************************************************)
DevStaValues == { {}, {0}, {0, 2}, {1, 3}, {0, 2, 5} }
UncorStatusValues == { {}, {4}, {4, 25}, {0, 4} }
UncorMaskValues == { {}, {4} }
UncorSeverValues == { {}, {4} }
CorStatusValues == { {}, {0}, {0, 15} }
CorMaskValues == { {}, {0} }

\* What a pread of a register can give: all the bytes (ok, with the value), or
\* an error or a short read.
RegRead(values) ==
  {[ok |-> TRUE, val |-> v] : v \in values} \cup {[ok |-> FALSE, val |-> {}]}

\* pcie_read16 / pcie_read32 during polling: 0 when the read failed.
ReadValue(r) == IF r.ok THEN r.val ELSE {}

(***************************************************************************)
(* pcie_check_dev_status                                                   *)
(***************************************************************************)
\* A faulty classification: the Correctable bit is not told apart.
DevStatusTypeInstance_NoCe(err) ==
  IF err.mask = PCI_EXP_DEVSTA_FED THEN PCIE_SEV_FATAL ELSE PCIE_SEV_NOFATAL

DevStatusTypeInstance(err) ==
  IF err.mask = PCI_EXP_DEVSTA_FED THEN PCIE_SEV_FATAL
  ELSE IF err.mask = PCI_EXP_DEVSTA_CED THEN PCIE_SEV_CE
  ELSE PCIE_SEV_NOFATAL

DevStatusSeverity(err) ==
  IF err.mask = PCI_EXP_DEVSTA_FED THEN NOTIF_FAILURE ELSE NOTIF_WARNING

\* One iteration of the loop over pcie_base_errors: the notifications it dispatches.
DevStatusEntry(dev, err, new_status) ==
  IF Has(err.mask, new_status)
  THEN IF ~pcie_config.persistent /\ Has(err.mask, dev.device_status)
       THEN <<>>
       ELSE << Notification(DevStatusSeverity(err), DevId(dev), PCIE_ERROR,
                            DevStatusTypeInstance(err),
                            "Device Status Error set: %s", <<err.desc>>) >>
  ELSE IF Has(err.mask, dev.device_status)
       THEN << Notification(NOTIF_OKAY, DevId(dev), PCIE_ERROR,
                            DevStatusTypeInstance(err),
                            "Device Status Error cleared: %s", <<err.desc>>) >>
       ELSE <<>>

\* "Check if anything new should be reported": the early return.
DevStatusNothingNew(dev, new_status) ==
  ~(pcie_config.persistent /\ new_status # {}) /\ new_status = dev.device_status

\* A faulty pcie_check_dev_status: no comparison with the stored status, every
\* bit that reads set is reported.
DevStatusEvents_Resend(dev, new_status) ==
  Concat([i \in 1..Len(pcie_base_errors) |->
            IF Has(pcie_base_errors[i].mask, new_status)
            THEN << Notification(DevStatusSeverity(pcie_base_errors[i]), DevId(dev),
                                 PCIE_ERROR, DevStatusTypeInstance(pcie_base_errors[i]),
                                 "Device Status Error set: %s",
                                 <<pcie_base_errors[i].desc>>) >>
            ELSE <<>>])

\* The notifications of one call, new_status being the masked value read.
DevStatusEvents(dev, new_status) ==
  IF DevStatusNothingNew(dev, new_status) THEN <<>>
  ELSE Concat([i \in 1..Len(pcie_base_errors) |->
                 DevStatusEntry(dev, pcie_base_errors[i], new_status)])

(***************************************************************************)
(* pcie_dispatch_uncorrectable_errors, pcie_dispatch_correctable_errors    *)
(***************************************************************************)
\* A faulty classification: the test of the severity register is inverted.
UncorTypeInstance_Inverted(err, severity) ==
  IF Has(err.mask, severity) THEN PCIE_SEV_NOFATAL ELSE PCIE_SEV_FATAL

UncorTypeInstance(err, severity) ==
  IF Has(err.mask, severity) THEN PCIE_SEV_FATAL ELSE PCIE_SEV_NOFATAL

UncorSetSeverity(err, severity) ==
  IF Has(err.mask, severity) THEN NOTIF_FAILURE ELSE NOTIF_WARNING

\* A faulty mask test: masked errors are never omitted.
OmitMasked_Never(err, masked) == FALSE

\* "If not specifically set by config option omit masked errors"
OmitMasked(err, masked) == ~pcie_config.notif_masked /\ Has(err.mask, masked)

\* A faulty loop body: the `else if' branch that reports a cleared bit is missing.
UncorEntry_NoCleared(dev, err, errors, masked, severity) ==
  IF OmitMasked(err, masked) THEN <<>>
  ELSE IF Has(err.mask, errors)
          /\ (pcie_config.persistent \/ ~Has(err.mask, dev.uncorrectable_errors))
  THEN << Notification(UncorSetSeverity(err, severity), DevId(dev), PCIE_ERROR,
                       UncorTypeInstance(err, severity),
                       "Uncorrectable(%s) Error set: %s",
                       <<UncorTypeInstance(err, severity), err.desc>>) >>
  ELSE <<>>

UncorEntry(dev, err, errors, masked, severity) ==
  IF OmitMasked(err, masked) THEN <<>>
  ELSE IF Has(err.mask, errors)
  THEN IF ~pcie_config.persistent /\ Has(err.mask, dev.uncorrectable_errors)
       THEN <<>>
       ELSE << Notification(UncorSetSeverity(err, severity), DevId(dev), PCIE_ERROR,
                            UncorTypeInstance(err, severity),
                            "Uncorrectable(%s) Error set: %s",
                            <<UncorTypeInstance(err, severity), err.desc>>) >>
  ELSE IF Has(err.mask, dev.uncorrectable_errors)
       THEN << Notification(NOTIF_OKAY, DevId(dev), PCIE_ERROR,
                            UncorTypeInstance(err, severity),
                            "Uncorrectable(%s) Error cleared: %s",
                            <<UncorTypeInstance(err, severity), err.desc>>) >>
       ELSE <<>>

pcie_dispatch_uncorrectable_errors(dev, errors, masked, severity) ==
  Concat([i \in 1..Len(pcie_aer_ues) |->
            UncorEntry(dev, pcie_aer_ues[i], errors, masked, severity)])

\* A faulty loop body: a bit already reported is never reported again, the
\* persistent flag is not looked at.
CorEntry_Once(dev, err, errors, masked) ==
  IF OmitMasked(err, masked) THEN <<>>
  ELSE IF Has(err.mask, errors)
  THEN IF Has(err.mask, dev.correctable_errors)
       THEN <<>>
       ELSE << Notification(NOTIF_WARNING, DevId(dev), PCIE_ERROR, PCIE_SEV_CE,
                            "Correctable Error set: %s", <<err.desc>>) >>
  ELSE IF Has(err.mask, dev.correctable_errors)
       THEN << Notification(NOTIF_OKAY, DevId(dev), PCIE_ERROR, PCIE_SEV_CE,
                            "Correctable Error cleared: %s", <<err.desc>>) >>
       ELSE <<>>

CorEntry(dev, err, errors, masked) ==
  IF OmitMasked(err, masked) THEN <<>>
  ELSE IF Has(err.mask, errors)
  THEN IF ~pcie_config.persistent /\ Has(err.mask, dev.correctable_errors)
       THEN <<>>
       ELSE << Notification(NOTIF_WARNING, DevId(dev), PCIE_ERROR, PCIE_SEV_CE,
                            "Correctable Error set: %s", <<err.desc>>) >>
  ELSE IF Has(err.mask, dev.correctable_errors)
       THEN << Notification(NOTIF_OKAY, DevId(dev), PCIE_ERROR, PCIE_SEV_CE,
                            "Correctable Error cleared: %s", <<err.desc>>) >>
       ELSE <<>>

pcie_dispatch_correctable_errors(dev, errors, masked) ==
  Concat([i \in 1..Len(pcie_aer_ces) |->
            CorEntry(dev, pcie_aer_ces[i], errors, masked)])

\* pcie_check_aer: whether a status value is handed to the dispatch function.
AerDispatchNeeded(errors, baseline) ==
  (pcie_config.persistent /\ errors # {}) \/ errors # baseline


(***************************************************************************)
(* The log path.  A name or a value is a string, held as the sequence of   *)
(* its characters, so that prefixes and patterns are computed.             *)
(***************************************************************************)
MaxParsers == 2
MaxMessages == 1

PCIE_LOG_PORT == <<"r", "o", "o", "t", " ", "p", "o", "r", "t">>
PCIE_LOG_SEVERITY == <<"s", "e", "v", "e", "r", "i", "t", "y">>
PCIE_LOG_DEV == <<"d", "e", "v", "i", "c", "e">>
PCIE_LOG_TYPE == <<"e", "r", "r", "o", "r", " ", "t", "y", "p", "e">>
PCIE_LOG_ID == <<"i", "d">>

message_pattern(name, is_mandatory) == [name |-> name, is_mandatory |-> is_mandatory]

pcie_default_patterns ==
  << message_pattern(PCIE_LOG_PORT, TRUE),
     message_pattern(PCIE_LOG_DEV, TRUE),
     message_pattern(PCIE_LOG_SEVERITY, TRUE),
     message_pattern(PCIE_LOG_TYPE, FALSE),
     message_pattern(PCIE_LOG_ID, TRUE) >>

\* The MsgPattern blocks a configuration file can hold, in the order of the
\* file: fields declared in another order than the default parser's, an
\* optional field first, and a metadata field whose name begins with "device".
ConfiguredPatterns ==
  << << message_pattern(<<"n", "o", "t", "e">>, FALSE),
        message_pattern(PCIE_LOG_SEVERITY, TRUE),
        message_pattern(PCIE_LOG_ID, TRUE),
        message_pattern(PCIE_LOG_DEV, TRUE) >>,
     << message_pattern(PCIE_LOG_DEV, TRUE),
        message_pattern(<<"d", "e", "v", "i", "c", "e", "_", "i", "d">>, TRUE),
        message_pattern(PCIE_LOG_SEVERITY, TRUE) >>,
     << message_pattern(PCIE_LOG_DEV, TRUE),
        message_pattern(PCIE_LOG_SEVERITY, TRUE) >> >>

\* pcie_msg_parser_t; job is "null" until message_parser_init gives a job.
pcie_msg_parser(name, patterns) == [name |-> name, patterns |-> patterns, job |-> "null"]

\* The parsers pcie_plugin_config builds from n MsgPattern blocks.
ConfiguredParsers(n) ==
  [k \in 1..n |-> pcie_msg_parser(<<"parser", k>>, ConfiguredPatterns[k])]

\* pcie_init: the default parser when none is configured.
DefaultParsers == << pcie_msg_parser(<<"default">>, pcie_default_patterns) >>


(***************************************************************************)
(* Startup: configuration, enumeration, pruning.                           *)
(***************************************************************************)
Init ==
  /\ pcie_config = [use_sysfs |-> TRUE, notif_masked |-> FALSE, persistent |-> FALSE,
                    first_read |-> FALSE, read_devices |-> TRUE, read_log |-> FALSE,
                    default_patterns |-> FALSE, config_error |-> FALSE]
  /\ pcie_dev_list = <<>>
  /\ pc = "loaded"
  /\ e = 0
  /\ ret = 0
  /\ pass = <<>>
  /\ rc = 0
  /\ pcie_parsers = <<>>
  /\ parser_i = 0
  /\ pcie_parsers_len = 0
  /\ history = NoHistory
  /\ last = [op |-> "none"]

\* pcie_plugin_config: the ReportMasked and PersistentNotifications options.
PluginConfig ==
  /\ pc = "loaded"
  /\ \E masked \in BOOLEAN, persistent \in BOOLEAN :
       pcie_config' = [pcie_config EXCEPT !.notif_masked = masked,
                                          !.persistent = persistent]
  /\ pc' = "configured"
  /\ last' = [op |-> "config"]
  /\ UNCHANGED <<pcie_dev_list, e, ret, pass, rc, pcie_parsers, parser_i, pcie_parsers_len, history>>

\* The options a configuration file sets: Source ("other" is any value but
\* proc and sysfs), ReportMasked, PersistentNotifications, ReadLog,
\* FirstFullRead, the number of MsgPattern blocks, and whether an option of
\* the file is invalid.
AnyOptions ==
  [source : {"sysfs", "proc", "other"}, masked : BOOLEAN, persistent : BOOLEAN,
   read_log : BOOLEAN, first_read : BOOLEAN, parsers : 0..MaxParsers, invalid : BOOLEAN]

\* The configuration files that read the log only.
LogOptions ==
  {o \in AnyOptions : o.source = "other" /\ ~o.masked /\ ~o.persistent}

\* pcie_plugin_config on a configuration file drawn from options.
Configure(options) ==
  /\ pc = "loaded"
  /\ \E o \in options :
       /\ pcie_config' = [pcie_config EXCEPT !.use_sysfs = (o.source = "sysfs"),
                                             !.read_devices = (o.source # "other"),
                                             !.notif_masked = o.masked,
                                             !.persistent = o.persistent,
                                             !.read_log = o.read_log,
                                             !.first_read = o.first_read,
                                             !.config_error = o.invalid]
       /\ pcie_parsers' = ConfiguredParsers(o.parsers)
       /\ pcie_parsers_len' = o.parsers
       /\ history' = [history EXCEPT !.replay = o.first_read]
  /\ pc' = "configured"
  /\ last' = [op |-> "config"]
  /\ UNCHANGED <<pcie_dev_list, e, ret, pass, rc, parser_i>>

PluginConfigAny == Configure(AnyOptions)

PluginConfigLog == Configure(LogOptions)

\* pcie_init: the configuration is refused.
PcieInitRefuse ==
  /\ pc = "configured"
  /\ \/ pcie_config.config_error
     \/ ~pcie_config.read_devices /\ ~pcie_config.read_log
  /\ pc' = "init_failed"
  /\ rc' = 0 - 1
  /\ last' = [op |-> "init_refused"]
  /\ UNCHANGED <<pcie_config, pcie_dev_list, e, ret, pass, pcie_parsers, parser_i, pcie_parsers_len, history>>

pcie_add_device(list, id) ==
  Append(list, [domain |-> id.domain, bus |-> id.bus, device |-> id.device,
                function |-> id.function, cap_exp |-> Absent, ecap_aer |-> Absent,
                device_status |-> {}, correctable_errors |-> {},
                uncorrectable_errors |-> {}])

RECURSIVE AddDevices(_, _)
AddDevices(list, ids) ==
  IF ids = <<>> THEN list
  ELSE AddDevices(pcie_add_device(list, Head(ids)), Tail(ids))

\* The order in which the directory gives the platform's devices: by address.
Before(a, b) ==
  \/ a.domain < b.domain
  \/ a.domain = b.domain /\ a.bus < b.bus
  \/ a.domain = b.domain /\ a.bus = b.bus /\ a.device < b.device
  \/ a.domain = b.domain /\ a.bus = b.bus /\ a.device = b.device /\ a.function < b.function

\* The listings a device directory can give: up to MaxDevices devices of the
\* platform, each once, in directory order.
Listings ==
  UNION { { ids \in [1..n -> {p.id : p \in Platform}] :
              \A i, j \in 1..n : i < j => Before(ids[i], ids[j]) } : n \in 0..MaxDevices }

\* The value is x with bit number `bit' set (x a number).
NumHas(bit, x) == (x \div (2 ^ bit)) % 2 = 1

\* The listings of the backend in use: the flat table has no domain numbers.
ListingsOf(use_sysfs) ==
  IF use_sysfs THEN Listings
  ELSE {ids \in Listings : \A k \in 1..Len(ids) : ids[k].domain = 0}

\* The largest slot value a line of the flat device table holds (16 bits).
MaxSlot == 65535

\* A faulty PCIE_DEV: the device number is not masked to 5 bits.
PCIE_DEV_NoMask(x) == x \div 8

\* PCIE_DEV(x) and PCIE_FN(x)
PCIE_DEV(x) == (x \div 8) % 32
PCIE_FN(x) == x % 8

\* pcie_list_devices_proc, the loop body: the identity decoded from a slot
\* value (bus is a uint8_t).
SlotDevice(slot) == Bdf(0, (slot \div 256) % 256, PCIE_DEV(slot), PCIE_FN(slot))

\* The configuration file that selects the flat device table.
ProcOptions ==
  {o \in AnyOptions : /\ o.source = "proc"
                      /\ ~o.masked /\ ~o.persistent /\ ~o.read_log /\ ~o.first_read
                      /\ o.parsers = 0 /\ ~o.invalid}

PluginConfigProc == Configure(ProcOptions)

\* pcie_init up to the return of pcie_list_devices_proc, on a table of one line.
PcieInitListProc ==
  /\ pc = "configured"
  /\ ~pcie_config.config_error
  /\ pcie_config.read_devices
  /\ ~pcie_config.use_sysfs
  /\ \E slot \in 0..MaxSlot :
       /\ pcie_dev_list' = pcie_add_device(<<>>, SlotDevice(slot))
       /\ last' = [op |-> "list_proc", slots |-> <<slot>>]
  /\ pc' = "init_listed"
  /\ UNCHANGED <<pcie_config, e, ret, pass, rc, pcie_parsers, parser_i, pcie_parsers_len, history>>

\* pcie_init up to the return of list_devices: the listing fails (pcie_init
\* calls pcie_shutdown and returns -1) or fills the registry.
PcieInitList ==
  /\ pc = "configured"
  /\ ~pcie_config.config_error
  /\ pcie_config.read_devices
  /\ \/ /\ pcie_dev_list' = <<>>
        /\ pcie_parsers' = <<>>
        /\ pc' = "init_failed"
        /\ rc' = 0 - 1
        /\ last' = [op |-> "list_failed"]
     \/ \E ids \in ListingsOf(pcie_config.use_sysfs) :
          /\ pcie_dev_list' = AddDevices(<<>>, ids)
          /\ pcie_parsers' = pcie_parsers
          /\ pc' = "init_listed"
          /\ rc' = rc
          /\ last' = [op |-> "list", ids |-> ids]
  /\ UNCHANGED <<pcie_config, e, ret, pass, parser_i, pcie_parsers_len, history>>

\* A faulty loop body: a device without the Express capability is not deleted.
PreprocessDevice_KeepNoCap(dev, opened) ==
  IF ~opened THEN [dev |-> dev, del |-> TRUE, hung |-> FALSE]
  ELSE
    LET cfg == ConfigSpace(dev)
        status == pcie_read16(cfg, PCI_STATUS)
        cap == IF NumHas(PCI_STATUS_CAP_LIST, status) THEN pcie_find_cap_exp(cfg)
               ELSE dev.cap_exp
    IN IF cap = Hang THEN [dev |-> dev, del |-> FALSE, hung |-> TRUE]
       ELSE [dev |-> [dev EXCEPT !.cap_exp = cap], del |-> FALSE, hung |-> FALSE]

\* A faulty loop body: a device that fails to open is not deleted.
PreprocessDevice_KeepUnopened(dev, opened) ==
  IF ~opened THEN [dev |-> dev, del |-> FALSE, hung |-> FALSE]
  ELSE
    LET cfg == ConfigSpace(dev)
        status == pcie_read16(cfg, PCI_STATUS)
        cap == IF NumHas(PCI_STATUS_CAP_LIST, status) THEN pcie_find_cap_exp(cfg)
               ELSE dev.cap_exp
    IN IF cap = Hang THEN [dev |-> dev, del |-> FALSE, hung |-> TRUE]
       ELSE IF cap = Absent
       THEN [dev |-> [dev EXCEPT !.cap_exp = cap], del |-> TRUE, hung |-> FALSE]
       ELSE LET aer == pcie_find_ecap_aer(cfg) IN
            IF aer = Hang
            THEN [dev |-> [dev EXCEPT !.cap_exp = cap], del |-> FALSE, hung |-> TRUE]
            ELSE [dev |-> [dev EXCEPT !.cap_exp = cap, !.ecap_aer = aer],
                  del |-> FALSE, hung |-> FALSE]

\* One iteration of the loop of pcie_preprocess_devices on dev, opened telling
\* whether the device opened: the device after it, whether it is deleted, and
\* whether a capability walk never returned.
PreprocessDevice(dev, opened) ==
  IF ~opened THEN [dev |-> dev, del |-> TRUE, hung |-> FALSE]
  ELSE
    LET cfg == ConfigSpace(dev)
        status == pcie_read16(cfg, PCI_STATUS)
        cap == IF NumHas(PCI_STATUS_CAP_LIST, status) THEN pcie_find_cap_exp(cfg)
               ELSE dev.cap_exp
    IN IF cap = Hang THEN [dev |-> dev, del |-> FALSE, hung |-> TRUE]
       ELSE IF cap = Absent
       THEN [dev |-> [dev EXCEPT !.cap_exp = cap], del |-> TRUE, hung |-> FALSE]
       ELSE LET aer == pcie_find_ecap_aer(cfg) IN
            IF aer = Hang
            THEN [dev |-> [dev EXCEPT !.cap_exp = cap], del |-> FALSE, hung |-> TRUE]
            ELSE [dev |-> [dev EXCEPT !.cap_exp = cap, !.ecap_aer = aer],
                  del |-> FALSE, hung |-> FALSE]

\* The loop of pcie_preprocess_devices from position i; opens holds the
\* positions of the devices that open.
RECURSIVE PreprocessLoop(_, _, _)
PreprocessLoop(devs, i, opens) ==
  IF i > Len(devs) THEN [list |-> <<>>, hung |-> FALSE]
  ELSE
    LET r == PreprocessDevice(devs[i], i \in opens) IN
    IF r.hung THEN [list |-> <<r.dev>> \o SubSeq(devs, i + 1, Len(devs)), hung |-> TRUE]
    ELSE LET rest == PreprocessLoop(devs, i + 1, opens) IN
         [list |-> (IF r.del THEN <<>> ELSE <<r.dev>>) \o rest.list, hung |-> rest.hung]

pcie_preprocess_devices(devs, opens) == PreprocessLoop(devs, 1, opens)

\* pcie_init: the call of pcie_preprocess_devices.
PcieInitPreprocess ==
  /\ pc = "init_listed"
  /\ \E opens \in SUBSET (1..Len(pcie_dev_list)) :
       LET r == pcie_preprocess_devices(pcie_dev_list, opens) IN
       /\ pcie_dev_list' = r.list
       /\ pc' = IF r.hung THEN "init_hung" ELSE "init_pruned"
       /\ last' = [op |-> "preprocess", devs |-> pcie_dev_list, opens |-> opens]
  /\ UNCHANGED <<pcie_config, e, ret, pass, rc, pcie_parsers, parser_i, pcie_parsers_len, history>>

\* pcie_init after pruning: no device left (pcie_shutdown, return -1), or
\* return 0 when the log is not read, or go on to the parsers.
PcieInitFinish ==
  /\ pc = "init_pruned"
  /\ IF Len(pcie_dev_list) = 0
     THEN /\ pcie_dev_list' = <<>>
          /\ pcie_parsers' = <<>>
          /\ pc' = "init_failed"
          /\ rc' = 0 - 1
     ELSE /\ pcie_dev_list' = pcie_dev_list
          /\ pcie_parsers' = pcie_parsers
          /\ IF ~pcie_config.read_log
             THEN pc' = "idle" /\ rc' = 0
             ELSE pc' = "init_parsers" /\ rc' = rc
  /\ last' = [op |-> "init_end", devices |-> Len(pcie_dev_list)]
  /\ UNCHANGED <<pcie_config, e, ret, pass, parser_i, pcie_parsers_len, history>>

\* pcie_init when the devices are not read and the log is.
PcieInitLogOnly ==
  /\ pc = "configured"
  /\ ~pcie_config.config_error
  /\ ~pcie_config.read_devices
  /\ pcie_config.read_log
  /\ pc' = "init_parsers"
  /\ last' = [op |-> "init_log_only"]
  /\ UNCHANGED <<pcie_config, pcie_dev_list, e, ret, pass, rc, pcie_parsers, parser_i, pcie_parsers_len, history>>

\* A faulty loop: a parser that fails to initialize is left without a job and
\* pcie_init goes on.
PcieInitParsers_IgnoreFailure ==
  /\ pc = "init_parsers"
  /\ LET parsers == IF pcie_parsers = <<>> THEN DefaultParsers ELSE pcie_parsers IN
       /\ pcie_config' = [pcie_config EXCEPT !.default_patterns = (pcie_parsers = <<>>)]
       /\ \E fail \in 0..Len(parsers) :
            /\ pcie_parsers' = [k \in 1..Len(parsers) |->
                                  [parsers[k] EXCEPT !.job = IF k = fail THEN "null" ELSE "ok"]]
            /\ last' = [op |-> "init_parsers", parsers |-> Len(parsers), failed |-> fail]
       /\ pcie_dev_list' = pcie_dev_list
       /\ pc' = "idle"
       /\ rc' = 0
  /\ pcie_parsers_len' = IF pcie_parsers = <<>> THEN 1 ELSE pcie_parsers_len
  /\ UNCHANGED <<e, ret, pass, parser_i, history>>

\* pcie_init: the default parser when none is configured, then
\* message_parser_init for each parser in turn; the first that fails (fail, 0
\* when none does) ends pcie_init with pcie_shutdown and -1.
PcieInitParsers ==
  /\ pc = "init_parsers"
  /\ LET parsers == IF pcie_parsers = <<>> THEN DefaultParsers ELSE pcie_parsers IN
       /\ pcie_config' = [pcie_config EXCEPT !.default_patterns = (pcie_parsers = <<>>)]
       /\ \E fail \in 0..Len(parsers) :
            /\ last' = [op |-> "init_parsers", parsers |-> Len(parsers), failed |-> fail]
            /\ IF fail = 0
               THEN /\ pcie_parsers' = [k \in 1..Len(parsers) |->
                                          [parsers[k] EXCEPT !.job = "ok"]]
                    /\ pcie_dev_list' = pcie_dev_list
                    /\ pc' = "idle"
                    /\ rc' = 0
               ELSE /\ pcie_parsers' = <<>>
                    /\ pcie_dev_list' = <<>>
                    /\ pc' = "init_failed"
                    /\ rc' = 0 - 1
  /\ pcie_parsers_len' = IF pcie_parsers = <<>> THEN 1 ELSE pcie_parsers_len
  /\ UNCHANGED <<e, ret, pass, parser_i, history>>


(***************************************************************************)
(* The log path: pcie_parse_msg.                                           *)
(***************************************************************************)
\* strncmp(s, p, strlen(p)) == 0
StrPrefix(p, s) == Len(s) >= Len(p) /\ SubSeq(s, 1, Len(p)) = p

\* The fnmatch patterns "*[nN]on-[fF]atal*" and "*[fF]atal*" between their
\* stars: one set of characters per position.
NonFatalPattern ==
  << {"n", "N"}, {"o"}, {"n"}, {"-"}, {"f", "F"}, {"a"}, {"t"}, {"a"}, {"l"} >>
FatalPattern == << {"f", "F"}, {"a"}, {"t"}, {"a"}, {"l"} >>

\* fnmatch("*" pattern "*", value, 0) == 0: the pattern matches somewhere in value.
fnmatch(pattern, value) ==
  \E start \in 1..(Len(value) - Len(pattern) + 1) :
    \A k \in 1..Len(pattern) : value[start + k - 1] \in pattern[k]

\* The severity and type instance pcie_parse_msg takes from a severity value.
SeverityClass(value) ==
  IF fnmatch(NonFatalPattern, value)
  THEN [severity |-> NOTIF_WARNING, type_instance |-> PCIE_SEV_NOFATAL]
  ELSE IF fnmatch(FatalPattern, value)
  THEN [severity |-> NOTIF_FAILURE, type_instance |-> PCIE_SEV_FATAL]
  ELSE [severity |-> NOTIF_WARNING, type_instance |-> PCIE_SEV_CE]

\* The loop body of pcie_parse_msg on one item, n being the notification.
ParseItem(n, item) ==
  IF StrPrefix(PCIE_LOG_SEVERITY, item.name)
  THEN [n EXCEPT !.severity = SeverityClass(item.value).severity,
                 !.type_instance = SeverityClass(item.value).type_instance]
  ELSE IF StrPrefix(PCIE_LOG_DEV, item.name)
  THEN [n EXCEPT !.plugin_instance = item.value]
  ELSE [n EXCEPT !.meta = Append(n.meta, [key |-> item.name, value |-> item.value])]

\* The loop of pcie_parse_msg from item k: it ends at the first empty value.
RECURSIVE ParseItems(_, _, _, _)
ParseItems(n, items, k, max_items) ==
  IF k > max_items \/ k > Len(items) THEN n
  ELSE IF items[k].value = <<>> THEN n
  ELSE ParseItems(ParseItem(n, items[k]), items, k + 1, max_items)

\* pcie_parse_msg: the notification dispatched for a message.
pcie_parse_msg(msg, max_items) ==
  LET n == ParseItems([severity |-> NOTIF_WARNING, plugin_instance |-> <<>>,
                       type_instance |-> "", meta |-> <<>>], msg, 1, max_items)
  IN [severity |-> n.severity, plugin_instance |-> n.plugin_instance,
      type |-> PCIE_ERROR, type_instance |-> n.type_instance,
      message |-> [fmt |-> "AER %s error reported in log", args |-> <<n.type_instance>>],
      meta |-> n.meta]

(***************************************************************************)
(* The message parser the plugin reads the log with.  For one matched log  *)
(* message it delivers the fields in the declared order of the patterns,   *)
(* each with the captured text; an optional field that did not match is    *)
(* the empty string.                                                       *)
(***************************************************************************)
SeverityValues ==
  { <<"C", "o", "r", "r", "e", "c", "t", "e", "d">>,
    <<"N", "o", "n", "-", "F", "a", "t", "a", "l">>,
    <<"n", "o", "n", "-", "f", "a", "t", "a", "l">>,
    <<"N", "O", "N", "-", "F", "A", "T", "A", "L">>,
    <<"F", "a", "t", "a", "l">>,
    <<"f", "a", "t", "a", "l">>,
    <<"F", "A", "T", "A", "L">>,
    <<"F", "a", "T", "a", "L">>,
    <<"U", "n", "c", "o", "r", "r", "e", "c", "t", "e", "d", " ", "(", "N", "o", "n", "-", "F", "a", "t", "a", "l", ")">>,
    <<"U", "n", "c", "o", "r", "r", "e", "c", "t", "e", "d", " ", "(", "F", "a", "t", "a", "l", ")">> }

\* The texts a field can capture, by the name of its pattern.
FieldValues(pattern) ==
  IF pattern.name = PCIE_LOG_SEVERITY THEN SeverityValues
  ELSE IF pattern.name = PCIE_LOG_DEV THEN { <<"0", "3", ".", "0">> }
  ELSE IF pattern.name = PCIE_LOG_ID THEN { <<"0", "0", "0", "8">> }
  ELSE IF pattern.name = PCIE_LOG_PORT THEN { <<"0", "0", ".", "0">> }
  ELSE IF pattern.is_mandatory THEN { <<"7">> }
  ELSE { <<"x">>, <<>> }

\* The messages the parser can deliver for the first k of these patterns.
RECURSIVE MatchedFields(_, _)
MatchedFields(patterns, k) ==
  IF k = 0 THEN { <<>> }
  ELSE { Append(m, [name |-> patterns[k].name, value |-> v]) :
           m \in MatchedFields(patterns, k - 1), v \in FieldValues(patterns[k]) }

MatchedMessages(patterns) == MatchedFields(patterns, Len(patterns))

\* What message_parser_read can give: an error, or up to MaxMessages messages.
ParserReads(patterns) ==
  {[ok |-> FALSE, msgs |-> <<>>]}
  \cup {[ok |-> TRUE, msgs |-> m] :
          m \in UNION {[1..n -> MatchedMessages(patterns)] : n \in 0..MaxMessages}}

(***************************************************************************)
(* The read callback: pcie_plugin_read and pcie_process_devices.           *)
(***************************************************************************)
\* The register read of size bytes at pos, as the step records it.
ReadAt(pos, size) == [pos |-> pos, size |-> size]

\* pcie_plugin_read calls pcie_process_devices: the loop starts at the head.
PluginReadBegin ==
  /\ pc = "idle"
  /\ pcie_config.read_devices
  /\ pc' = "poll"
  /\ e' = 1
  /\ ret' = 0
  /\ pass' = <<>>
  /\ last' = [op |-> "read_begin"]
  /\ UNCHANGED <<pcie_config, pcie_dev_list, rc, pcie_parsers, parser_i, pcie_parsers_len, history>>

\* A faulty loop body: the loop is left at the first device that does not open.
ProcessDeviceOpenFailed_Break ==
  /\ pc = "poll"
  /\ e <= Len(pcie_dev_list)
  /\ LET dev == pcie_dev_list[e] IN
       /\ last' = [op |-> "open_failed", dev |-> e, reads |-> <<>>,
                   old |-> <<dev.device_status, dev.uncorrectable_errors,
                             dev.correctable_errors>>,
                   events |-> << Notification(NOTIF_FAILURE, DevId(dev), "", "",
                                              "Failed to read device status", <<>>) >>]
       /\ pass' = Append(pass, [dev |-> e, opened |-> FALSE])
  /\ ret' = 0 - 1
  /\ e' = Len(pcie_dev_list) + 1
  /\ UNCHANGED <<pcie_config, pcie_dev_list, pc, rc, pcie_parsers, parser_i, pcie_parsers_len, history>>

\* A faulty loop body: a device that does not open is taken off the list,
\* as the start-up pass does.
ProcessDeviceOpenFailed_Remove ==
  /\ pc = "poll"
  /\ e <= Len(pcie_dev_list)
  /\ LET dev == pcie_dev_list[e] IN
       /\ last' = [op |-> "open_failed", dev |-> e, reads |-> <<>>,
                   old |-> <<dev.device_status, dev.uncorrectable_errors,
                             dev.correctable_errors>>,
                   events |-> << Notification(NOTIF_FAILURE, DevId(dev), "", "",
                                              "Failed to read device status", <<>>) >>]
       /\ pass' = Append(pass, [dev |-> e, opened |-> FALSE])
  /\ pcie_dev_list' = SubSeq(pcie_dev_list, 1, e - 1) \o
                      SubSeq(pcie_dev_list, e + 1, Len(pcie_dev_list))
  /\ ret' = 0 - 1
  /\ e' = e
  /\ UNCHANGED <<pcie_config, pc, rc, pcie_parsers, parser_i, pcie_parsers_len, history>>

\* The loop body when the device does not open: one failure notification.
ProcessDeviceOpenFailed ==
  /\ pc = "poll"
  /\ e <= Len(pcie_dev_list)
  /\ LET dev == pcie_dev_list[e] IN
       /\ last' = [op |-> "open_failed", dev |-> e, reads |-> <<>>,
                   old |-> <<dev.device_status, dev.uncorrectable_errors,
                             dev.correctable_errors>>,
                   events |-> << Notification(NOTIF_FAILURE, DevId(dev), "", "",
                                              "Failed to read device status", <<>>) >>]
       /\ pass' = Append(pass, [dev |-> e, opened |-> FALSE])
  /\ ret' = 0 - 1
  /\ e' = e + 1
  /\ UNCHANGED <<pcie_config, pcie_dev_list, pc, rc, pcie_parsers, parser_i, pcie_parsers_len, history>>

\* The loop body when the device opens: pcie_check_dev_status(dev, dev->cap_exp).
CheckDevStatus ==
  /\ pc = "poll"
  /\ e <= Len(pcie_dev_list)
  /\ \E r \in RegRead(DevStaValues) :
       LET dev == pcie_dev_list[e]
           pos == dev.cap_exp
           new_status == ReadValue(r) \cap 0..3
       IN /\ last' = [op |-> "dev_status", dev |-> e,
                      reads |-> << ReadAt(pos + PCI_EXP_DEVSTA, 2) >>,
                      failed |-> ~r.ok, old |-> dev.device_status, new |-> new_status,
                      events |-> DevStatusEvents(dev, new_status)]
          /\ pcie_dev_list' = [pcie_dev_list EXCEPT ![e].device_status = new_status]
          /\ IF dev.ecap_aer # Absent
             THEN pc' = "aer_uncor" /\ e' = e
             ELSE pc' = "poll" /\ e' = e + 1
  /\ pass' = Append(pass, [dev |-> e, opened |-> TRUE])
  /\ history' = RecordDevStatus(history, e, last'.events)
  /\ UNCHANGED <<pcie_config, ret, rc, pcie_parsers, parser_i, pcie_parsers_len>>

\* A faulty first half: the baseline is stored only when an event was dispatched.
CheckAerUncor_StoreOnEvent ==
  /\ pc = "aer_uncor"
  /\ \E r \in RegRead(UncorStatusValues) :
       LET dev == pcie_dev_list[e]
           pos == dev.ecap_aer
           errors == ReadValue(r)
       IN /\ IF AerDispatchNeeded(errors, dev.uncorrectable_errors)
             THEN \E m \in RegRead(UncorMaskValues), s \in RegRead(UncorSeverValues) :
                    last' = [op |-> "aer_uncor", dev |-> e,
                             reads |-> << ReadAt(pos + PCI_ERR_UNCOR_STATUS, 4),
                                          ReadAt(pos + PCI_ERR_UNCOR_MASK, 4),
                                          ReadAt(pos + PCI_ERR_UNCOR_SEVER, 4) >>,
                             failed |-> ~r.ok, old |-> dev.uncorrectable_errors, new |-> errors,
                             dispatched |-> TRUE,
                             masked |-> ReadValue(m), severity |-> ReadValue(s),
                             events |-> pcie_dispatch_uncorrectable_errors(
                                          dev, errors, ReadValue(m), ReadValue(s))]
             ELSE last' = [op |-> "aer_uncor", dev |-> e,
                           reads |-> << ReadAt(pos + PCI_ERR_UNCOR_STATUS, 4) >>,
                           failed |-> ~r.ok, old |-> dev.uncorrectable_errors, new |-> errors,
                           dispatched |-> FALSE, masked |-> {}, severity |-> {},
                           events |-> <<>>]
          /\ pcie_dev_list' = [pcie_dev_list EXCEPT ![e].uncorrectable_errors =
                                 IF last'.events # <<>> THEN errors ELSE @]
  /\ pc' = "aer_cor"
  /\ history' = RecordAer(history, e, "uncor", pcie_aer_ues, last'.old, last'.new,
                          NotifiedBits(last'.events, "Uncorrectable(%s) Error set: %s",
                                       pcie_aer_ues))
  /\ UNCHANGED <<pcie_config, e, ret, pass, rc, pcie_parsers, parser_i, pcie_parsers_len>>

\* pcie_check_aer(dev, dev->ecap_aer), first half: the uncorrectable errors.
CheckAerUncor ==
  /\ pc = "aer_uncor"
  /\ \E r \in RegRead(UncorStatusValues) :
       LET dev == pcie_dev_list[e]
           pos == dev.ecap_aer
           errors == ReadValue(r)
       IN /\ IF AerDispatchNeeded(errors, dev.uncorrectable_errors)
             THEN \E m \in RegRead(UncorMaskValues), s \in RegRead(UncorSeverValues) :
                    last' = [op |-> "aer_uncor", dev |-> e,
                             reads |-> << ReadAt(pos + PCI_ERR_UNCOR_STATUS, 4),
                                          ReadAt(pos + PCI_ERR_UNCOR_MASK, 4),
                                          ReadAt(pos + PCI_ERR_UNCOR_SEVER, 4) >>,
                             failed |-> ~r.ok, old |-> dev.uncorrectable_errors, new |-> errors,
                             dispatched |-> TRUE,
                             masked |-> ReadValue(m), severity |-> ReadValue(s),
                             events |-> pcie_dispatch_uncorrectable_errors(
                                          dev, errors, ReadValue(m), ReadValue(s))]
             ELSE last' = [op |-> "aer_uncor", dev |-> e,
                           reads |-> << ReadAt(pos + PCI_ERR_UNCOR_STATUS, 4) >>,
                           failed |-> ~r.ok, old |-> dev.uncorrectable_errors, new |-> errors,
                           dispatched |-> FALSE, masked |-> {}, severity |-> {},
                           events |-> <<>>]
          /\ pcie_dev_list' = [pcie_dev_list EXCEPT ![e].uncorrectable_errors = errors]
  /\ pc' = "aer_cor"
  /\ history' = RecordAer(history, e, "uncor", pcie_aer_ues, last'.old, last'.new,
                          NotifiedBits(last'.events, "Uncorrectable(%s) Error set: %s",
                                       pcie_aer_ues))
  /\ UNCHANGED <<pcie_config, e, ret, pass, rc, pcie_parsers, parser_i, pcie_parsers_len>>

\* pcie_check_aer, second half: the correctable errors; then the device is closed.
CheckAerCor ==
  /\ pc = "aer_cor"
  /\ \E r \in RegRead(CorStatusValues) :
       LET dev == pcie_dev_list[e]
           pos == dev.ecap_aer
           errors == ReadValue(r)
       IN /\ IF AerDispatchNeeded(errors, dev.correctable_errors)
             THEN \E m \in RegRead(CorMaskValues) :
                    last' = [op |-> "aer_cor", dev |-> e,
                             reads |-> << ReadAt(pos + PCI_ERR_COR_STATUS, 4),
                                          ReadAt(pos + PCI_ERR_COR_MASK, 4) >>,
                             failed |-> ~r.ok, old |-> dev.correctable_errors, new |-> errors,
                             dispatched |-> TRUE, masked |-> ReadValue(m),
                             events |-> pcie_dispatch_correctable_errors(
                                          dev, errors, ReadValue(m))]
             ELSE last' = [op |-> "aer_cor", dev |-> e,
                           reads |-> << ReadAt(pos + PCI_ERR_COR_STATUS, 4) >>,
                           failed |-> ~r.ok, old |-> dev.correctable_errors, new |-> errors,
                           dispatched |-> FALSE, masked |-> {},
                           events |-> <<>>]
          /\ pcie_dev_list' = [pcie_dev_list EXCEPT ![e].correctable_errors = errors]
  /\ pc' = "poll"
  /\ e' = e + 1
  /\ history' = RecordAer(history, e, "cor", pcie_aer_ces, last'.old, last'.new,
                          NotifiedBits(last'.events, "Correctable Error set: %s",
                                       pcie_aer_ces))
  /\ UNCHANGED <<pcie_config, ret, pass, rc, pcie_parsers, parser_i, pcie_parsers_len>>

\* A faulty pcie_plugin_read: the result of pcie_process_devices is not
\* tested, and the parsers are read after a failed device poll.
PluginReadEnd_IgnoreFailure ==
  /\ pc = "poll"
  /\ e > Len(pcie_dev_list)
  /\ IF ~pcie_config.read_log
     THEN /\ rc' = IF ret < 0 THEN 0 - 1 ELSE 0
          /\ pc' = "idle"
          /\ parser_i' = 0
          /\ last' = [op |-> "read_end"]
     ELSE /\ rc' = rc
          /\ pc' = "log"
          /\ parser_i' = 1
          /\ last' = [op |-> "devices_end"]
  /\ e' = 0
  /\ ret' = 0
  /\ UNCHANGED <<pcie_config, pcie_dev_list, pass, pcie_parsers, pcie_parsers_len, history>>

\* The loop is over: pcie_process_devices returns ret, and pcie_plugin_read
\* returns -1 when it is negative, 0 when the log is not read, and goes on to
\* the parsers otherwise.
PluginReadEnd ==
  /\ pc = "poll"
  /\ e > Len(pcie_dev_list)
  /\ IF ret < 0 \/ ~pcie_config.read_log
     THEN /\ rc' = IF ret < 0 THEN 0 - 1 ELSE 0
          /\ pc' = "idle"
          /\ parser_i' = 0
          /\ last' = [op |-> "read_end"]
     ELSE /\ rc' = rc
          /\ pc' = "log"
          /\ parser_i' = 1
          /\ last' = [op |-> "devices_end"]
  /\ e' = 0
  /\ ret' = 0
  /\ UNCHANGED <<pcie_config, pcie_dev_list, pass, pcie_parsers, pcie_parsers_len, history>>

\* pcie_plugin_read when the devices are not read: the loop over the parsers
\* starts at the first.
PluginReadBeginLog ==
  /\ pc = "idle"
  /\ ~pcie_config.read_devices
  /\ pcie_config.read_log
  /\ pc' = "log"
  /\ parser_i' = 1
  /\ ret' = 0
  /\ last' = [op |-> "read_begin"]
  /\ UNCHANGED <<pcie_config, pcie_dev_list, e, pass, rc, pcie_parsers, pcie_parsers_len, history>>

\* STATIC_ARRAY_SIZE(messages_storage[0].message_items)
max_item_num == 32

\* The notification of pcie_logfile_read when message_parser_read fails.
LogReadFailure ==
  [severity |-> NOTIF_FAILURE, plugin_instance |-> <<>>, type |-> "",
   type_instance |-> "",
   message |-> [fmt |-> "Failed to read from log file", args |-> <<>>],
   meta |-> <<>>]

\* A faulty loop: after a failed read the loop goes on with the next parser.
LogfileRead_NoBreak ==
  /\ pc = "log"
  /\ parser_i <= Len(pcie_parsers)
  /\ \E r \in ParserReads(pcie_parsers[parser_i].patterns) :
       /\ last' = [op |-> "log_read", parser |-> parser_i, failed |-> ~r.ok,
                   first_read |-> pcie_config.first_read, msgs |-> r.msgs,
                   events |-> IF r.ok
                              THEN [k \in 1..Len(r.msgs) |-> pcie_parse_msg(r.msgs[k], max_item_num)]
                              ELSE << LogReadFailure >>]
       /\ ret' = IF r.ok THEN 0 ELSE 0 - 1
  /\ parser_i' = parser_i + 1
  /\ history' = [history EXCEPT !.parsers_read = @ \cup {parser_i}]
  /\ UNCHANGED <<pcie_config, pcie_dev_list, pc, e, pass, rc, pcie_parsers, pcie_parsers_len>>

\* One turn of the loop of pcie_plugin_read: pcie_logfile_read for the parser
\* at parser_i.  When the read fails, one failure notification is dispatched,
\* the loop is left and pcie_plugin_read returns -1.
LogfileRead ==
  /\ pc = "log"
  /\ parser_i <= Len(pcie_parsers)
  /\ \E r \in ParserReads(pcie_parsers[parser_i].patterns) :
       /\ last' = [op |-> "log_read", parser |-> parser_i, failed |-> ~r.ok,
                   first_read |-> pcie_config.first_read, msgs |-> r.msgs,
                   events |-> IF r.ok
                              THEN [k \in 1..Len(r.msgs) |-> pcie_parse_msg(r.msgs[k], max_item_num)]
                              ELSE << LogReadFailure >>]
       /\ IF r.ok
          THEN /\ parser_i' = parser_i + 1
               /\ UNCHANGED <<pcie_config, pc, ret, rc>>
          ELSE /\ pcie_config' = [pcie_config EXCEPT !.first_read = FALSE]
               /\ parser_i' = 0
               /\ pc' = "idle"
               /\ ret' = 0
               /\ rc' = 0 - 1
  /\ history' = [history EXCEPT !.parsers_read = @ \cup {parser_i}]
  /\ UNCHANGED <<pcie_dev_list, e, pass, pcie_parsers, pcie_parsers_len>>

\* The loop over the parsers is over: first_read is cleared and
\* pcie_plugin_read returns ret.
PluginReadLogEnd ==
  /\ pc = "log"
  /\ parser_i > Len(pcie_parsers)
  /\ pcie_config' = [pcie_config EXCEPT !.first_read = FALSE]
  /\ rc' = ret
  /\ pc' = "idle"
  /\ parser_i' = 0
  /\ ret' = 0
  /\ last' = [op |-> "read_end"]
  /\ UNCHANGED <<pcie_dev_list, e, pass, pcie_parsers, pcie_parsers_len, history>>

Next ==
  \/ PluginConfig
  \/ PcieInitList
  \/ PcieInitPreprocess
  \/ PcieInitFinish
  \/ PluginReadBegin
  \/ ProcessDeviceOpenFailed
  \/ CheckDevStatus
  \/ CheckAerUncor
  \/ CheckAerCor
  \/ PluginReadEnd

Spec == Init /\ [][Next]_vars

\* The same, with the record of the unreported AER bits kept.
InitTracked ==
  /\ pcie_config = [use_sysfs |-> TRUE, notif_masked |-> FALSE, persistent |-> FALSE,
                    first_read |-> FALSE, read_devices |-> TRUE, read_log |-> FALSE,
                    default_patterns |-> FALSE, config_error |-> FALSE]
  /\ pcie_dev_list = <<>>
  /\ pc = "loaded"
  /\ e = 0
  /\ ret = 0
  /\ pass = <<>>
  /\ rc = 0
  /\ pcie_parsers = <<>>
  /\ parser_i = 0
  /\ pcie_parsers_len = 0
  /\ history = [NoHistory EXCEPT !.aer_tracked = TRUE]
  /\ last = [op |-> "none"]

SpecTracked == InitTracked /\ [][Next]_vars

\* Startup under any configuration file: pcie_plugin_config, then pcie_init.
NextInit ==
  \/ PluginConfigAny
  \/ PcieInitRefuse
  \/ PcieInitList
  \/ PcieInitPreprocess
  \/ PcieInitFinish
  \/ PcieInitLogOnly
  \/ PcieInitParsers

SpecInit == Init /\ [][NextInit]_vars

\* pcie_shutdown, called by the host after pcie_init has returned (pcie_init
\* itself has called it on its failure paths) and callable again.  The device
\* list is cleared when there is one and the pointer is reset.  The loop over
\* the parsers runs to pcie_parsers_len, which is never reset: when
\* pcie_parsers has been freed and set to NULL the loop reads
\* pcie_parsers[0].job through NULL, which is undefined: the process faults,
\* or goes on with what it happened to read.
PcieShutdown ==
  /\ pc \in {"idle", "init_failed", "shutdown"}
  /\ pcie_dev_list' = <<>>
  /\ IF pcie_parsers_len > 0 /\ pcie_parsers = <<>>
     THEN \E outcome \in {"fault", "stray_release"} :
            /\ last' = [op |-> "shutdown", devices |-> Len(pcie_dev_list),
                        parsers |-> 0, null_access |-> TRUE, outcome |-> outcome]
            /\ pc' = IF outcome = "fault" THEN "crashed" ELSE "shutdown"
     ELSE /\ last' = [op |-> "shutdown", devices |-> Len(pcie_dev_list),
                      parsers |-> Len(pcie_parsers), null_access |-> FALSE,
                      outcome |-> "released"]
          /\ pc' = "shutdown"
  /\ pcie_parsers' = <<>>
  /\ rc' = 0
  /\ UNCHANGED <<pcie_config, e, ret, pass, parser_i, pcie_parsers_len, history>>

\* Startup under any configuration file, and shutdown.
NextShutdown ==
  \/ PluginConfigAny
  \/ PcieInitRefuse
  \/ PcieInitList
  \/ PcieInitPreprocess
  \/ PcieInitFinish
  \/ PcieInitLogOnly
  \/ PcieInitParsers
  \/ PcieShutdown

SpecShutdown == Init /\ [][NextShutdown]_vars

(***************************************************************************)
(* Enumeration from names and lines: sscanf.  A name or a line is the      *)
(* sequence of its characters.  No sample holds a sign or more than four   *)
(* digits in a row (the values stay far below the width of an int), and a  *)
(* 0x prefix counts only when a hexadecimal digit follows it.              *)
(***************************************************************************)
\* The most entries of a device directory, or lines of a device table.
MaxEntries == 4

DecChars == <<"0", "1", "2", "3", "4", "5", "6", "7", "8", "9">>
HexLower == DecChars \o <<"a", "b", "c", "d", "e", "f">>
HexUpper == DecChars \o <<"A", "B", "C", "D", "E", "F">>

IsDigit(c, base) ==
  \E k \in 1..base : c = HexLower[k] \/ c = HexUpper[k]

DigitValue(c) ==
  (CHOOSE k \in 1..16 : c = HexLower[k] \/ c = HexUpper[k]) - 1

\* The digits of a conversion: the longest run from pos on.
RECURSIVE ScanDigits(_, _, _, _)
ScanDigits(s, pos, base, acc) ==
  IF pos <= Len(s) /\ IsDigit(s[pos], base)
  THEN ScanDigits(s, pos + 1, base, acc * base + DigitValue(s[pos]))
  ELSE [val |-> acc, next |-> pos]

\* White space before a conversion is skipped.
RECURSIVE SkipSpace(_, _)
SkipSpace(s, pos) ==
  IF pos <= Len(s) /\ s[pos] \in {" ", "\t", "\n"} THEN SkipSpace(s, pos + 1) ELSE pos

\* One conversion, %x (base 16) or %d (base 10), at pos.
ScanNumber(s, pos, base) ==
  LET p1 == SkipSpace(s, pos)
      p2 == IF /\ base = 16 /\ p1 + 2 <= Len(s) /\ s[p1] = "0"
               /\ s[p1 + 1] \in {"x", "X"} /\ IsDigit(s[p1 + 2], 16)
            THEN p1 + 2 ELSE p1
      r == ScanDigits(s, p2, base, 0)
  IN [ok |-> r.next > p2, val |-> r.val, next |-> r.next]

\* A character of the format that is matched as it stands.
ScanLiteral(s, pos, c) == pos <= Len(s) /\ s[pos] = c

\* sscanf(item->d_name, "%x:%x:%x.%d", &dom, &bus, &dev, &fn)
sscanf_sysfs(name) ==
  LET dom == ScanNumber(name, 1, 16) IN
  IF ~dom.ok THEN [n |-> 0]
  ELSE IF ~ScanLiteral(name, dom.next, ":") THEN [n |-> 1]
  ELSE LET bus == ScanNumber(name, dom.next + 1, 16) IN
  IF ~bus.ok THEN [n |-> 1]
  ELSE IF ~ScanLiteral(name, bus.next, ":") THEN [n |-> 2]
  ELSE LET dev == ScanNumber(name, bus.next + 1, 16) IN
  IF ~dev.ok THEN [n |-> 2]
  ELSE IF ~ScanLiteral(name, dev.next, ".") THEN [n |-> 3]
  ELSE LET fn == ScanNumber(name, dev.next + 1, 10) IN
  IF ~fn.ok THEN [n |-> 3]
  ELSE [n |-> 4, dom |-> dom.val, bus |-> bus.val, dev |-> dev.val, fn |-> fn.val]

\* A faulty loop: the loop is left at the first name that does not convert.
RECURSIVE pcie_list_devices_sysfs_Break(_, _)
pcie_list_devices_sysfs_Break(list, names) ==
  IF names = <<>> THEN list
  ELSE IF Head(names)[1] = "." THEN pcie_list_devices_sysfs_Break(list, Tail(names))
  ELSE LET r == sscanf_sysfs(Head(names)) IN
       IF r.n # 4 THEN list
       ELSE pcie_list_devices_sysfs_Break(
              pcie_add_device(list, Bdf(r.dom, r.bus % 256, r.dev % 256, r.fn % 256)),
              Tail(names))

\* pcie_list_devices_sysfs once the directory is open, on the names readdir
\* gives: a name that starts with a dot or does not convert is passed over.
RECURSIVE pcie_list_devices_sysfs(_, _)
pcie_list_devices_sysfs(list, names) ==
  IF names = <<>> THEN list
  ELSE IF Head(names)[1] = "." THEN pcie_list_devices_sysfs(list, Tail(names))
  ELSE LET r == sscanf_sysfs(Head(names)) IN
       IF r.n # 4 THEN pcie_list_devices_sysfs(list, Tail(names))
       ELSE pcie_list_devices_sysfs(
              pcie_add_device(list, Bdf(r.dom, r.bus % 256, r.dev % 256, r.fn % 256)),
              Tail(names))

\* pcie_list_devices_proc once the table is open, on the lines fgets gives:
\* a line that sscanf(buf, "%x", &slot) does not convert is passed over.
RECURSIVE pcie_list_devices_proc(_, _)
pcie_list_devices_proc(list, lines) ==
  IF lines = <<>> THEN list
  ELSE LET slot == ScanNumber(Head(lines), 1, 16) IN
       IF ~slot.ok THEN pcie_list_devices_proc(list, Tail(lines))
       ELSE pcie_list_devices_proc(pcie_add_device(list, SlotDevice(slot.val)),
                                   Tail(lines))

\* The names of a device directory: the dot entry, three devices, a name cut
\* short and a name that is no address.
SysfsNames ==
  { <<".">>,
    <<"0", "0", "0", "0", ":", "0", "0", ":", "0", "3", ".", "0">>,
    <<"0", "0", "0", "0", ":", "0", "2", ":", "1", "f", ".", "3">>,
    <<"0", "0", "0", "1", ":", "0", "0", ":", "0", "1", ".", "0">>,
    <<"0", "0", "0", "0", ":", "0", "0", ":", "0", "3">>,
    <<"s", "l", "o", "t", "s">> }

\* The lines of a device table: two devices, a line that is no number and
\* an empty line.
ProcLines ==
  { <<"0", "3", "0", "0", "\t", "8", "0", "8", "6">>,
    <<"0", "2", "f", "b">>,
    <<"z", "z", "\t", "8", "0", "8", "6">>,
    <<"\n">> }

SeqsUpTo(S, n) == UNION { [1..k -> S] : k \in 0..n }

\* Configuration files that read the devices only.
EnumOptions ==
  {o \in AnyOptions : /\ o.source # "other"
                      /\ ~o.masked /\ ~o.persistent /\ ~o.read_log /\ ~o.first_read
                      /\ o.parsers = 0 /\ ~o.invalid}

PluginConfigEnum == Configure(EnumOptions)

\* pcie_init up to the return of pcie_list_devices_sysfs, the directory open.
PcieInitListSysfsNames ==
  /\ pc = "configured"
  /\ ~pcie_config.config_error
  /\ pcie_config.read_devices
  /\ pcie_config.use_sysfs
  /\ \E names \in SeqsUpTo(SysfsNames, MaxEntries) :
       /\ pcie_dev_list' = pcie_list_devices_sysfs(<<>>, names)
       /\ last' = [op |-> "list_sysfs", items |-> names, ret |-> 0]
  /\ pc' = "init_listed"
  /\ UNCHANGED <<pcie_config, e, ret, pass, rc, pcie_parsers, parser_i, pcie_parsers_len, history>>

\* pcie_init up to the return of pcie_list_devices_proc, the table open.
PcieInitListProcLines ==
  /\ pc = "configured"
  /\ ~pcie_config.config_error
  /\ pcie_config.read_devices
  /\ ~pcie_config.use_sysfs
  /\ \E lines \in SeqsUpTo(ProcLines, MaxEntries) :
       /\ pcie_dev_list' = pcie_list_devices_proc(<<>>, lines)
       /\ last' = [op |-> "list_lines", items |-> lines, ret |-> 0]
  /\ pc' = "init_listed"
  /\ UNCHANGED <<pcie_config, e, ret, pass, rc, pcie_parsers, parser_i, pcie_parsers_len, history>>

\* Enumeration from names and lines.
NextEnum ==
  \/ PluginConfigEnum
  \/ PcieInitListSysfsNames
  \/ PcieInitListProcLines

SpecEnum == Init /\ [][NextEnum]_vars

\* Configuration files that read the devices and the log: Source sysfs and
\* ReadLog true.
BothOptions ==
  {o \in AnyOptions : /\ o.source = "sysfs" /\ o.read_log /\ ~o.invalid
                      /\ ~o.masked /\ ~o.persistent}

PluginConfigBoth == Configure(BothOptions)

\* The devices and the log: every cycle polls the devices, then reads the
\* parsers.
NextBoth ==
  \/ PluginConfigBoth
  \/ PcieInitList
  \/ PcieInitPreprocess
  \/ PcieInitFinish
  \/ PcieInitParsers
  \/ PluginReadBegin
  \/ ProcessDeviceOpenFailed
  \/ CheckDevStatus
  \/ CheckAerUncor
  \/ CheckAerCor
  \/ PluginReadEnd
  \/ LogfileRead
  \/ PluginReadLogEnd

SpecBoth == Init /\ [][NextBoth]_vars

\* Enumeration from the flat device table.
NextProc ==
  \/ PluginConfigProc
  \/ PcieInitListProc

SpecProc == Init /\ [][NextProc]_vars

\* The plugin under the configuration files that read the log only.
NextLog ==
  \/ PluginConfigLog
  \/ PcieInitRefuse
  \/ PcieInitLogOnly
  \/ PcieInitParsers
  \/ PluginReadBeginLog
  \/ LogfileRead
  \/ PluginReadLogEnd

SpecLog == Init /\ [][NextLog]_vars

(***************************************************************************)
(* The capability walks on their own: a configuration space is drawn, and  *)
(* a walk is applied to it.                                                *)
(***************************************************************************)
\* The four bytes of an extended capability header with this ID and next
\* pointer (capability version 1), at offset pos.
HeaderBytes(pos, id, next) ==
  (pos :> id % 256) @@ (pos + 1 :> id \div 256)
  @@ (pos + 2 :> 1 + 16 * (next % 16)) @@ (pos + 3 :> next \div 16)

\* Standard capability lists over the entries at 0x40, 0x48 and 0x50: the
\* list pointer and the next pointers take 0, an entry's offset, or an
\* offset with low bits set; the IDs are Power Management (1), Express (16),
\* MSI (5) and 0xff.
CapSpaces ==
  { [size |-> 256,
     bytes |-> (6 :> 16) @@ (52 :> ptr) @@ (64 :> id1) @@ (65 :> next1)
               @@ (72 :> id2) @@ (73 :> next2) @@ (80 :> id3) @@ (81 :> 0)] :
      ptr \in {0, 3, 64, 67, 72}, id1 \in {1, 16, 255}, next1 \in {0, 64, 74, 80},
      id2 \in {1, 16, 255}, next2 \in {0, 64, 74, 80}, id3 \in {5, 16} }

\* Extended capability lists over the headers at 0x100, 0x140 and 0x180 (and
\* 0x80, below the extended space): the IDs are 0, AER (1) and Serial
\* Number (3); the next pointers go forward, backward, to the header itself,
\* below 0x100, or are 0.
ExtSpaces ==
  { [size |-> 4096,
     bytes |-> (6 :> 16) @@ (52 :> 64) @@ (64 :> 16)
               @@ HeaderBytes(128, id0, 0) @@ HeaderBytes(256, id1, next1)
               @@ HeaderBytes(320, id2, next2) @@ HeaderBytes(384, id3, next3)] :
      id0 \in {1, 3}, id1 \in {0, 1, 3}, next1 \in {0, 128, 256, 320, 384},
      id2 \in {1, 3}, next2 \in {0, 256, 320, 384}, id3 \in {1, 3}, next3 \in {0, 320, 384} }

\* The configuration spaces of the platform's devices, and the lists above.
WalkSpaces == {p.cfg : p \in Platform} \cup CapSpaces \cup ExtSpaces

InitWalk ==
  /\ pcie_config = [use_sysfs |-> TRUE, notif_masked |-> FALSE, persistent |-> FALSE,
                    first_read |-> FALSE, read_devices |-> TRUE, read_log |-> FALSE,
                    default_patterns |-> FALSE, config_error |-> FALSE]
  /\ pcie_dev_list = <<>>
  /\ pc = "walk"
  /\ e = 0
  /\ ret = 0
  /\ pass = <<>>
  /\ rc = 0
  /\ pcie_parsers = <<>>
  /\ parser_i = 0
  /\ pcie_parsers_len = 0
  /\ history = NoHistory
  /\ \E cfg \in WalkSpaces : last = [op |-> "config_space", cfg |-> cfg]

\* pcie_find_cap_exp on the configuration space.
FindCapExp ==
  /\ pc = "walk"
  /\ last.op = "config_space"
  /\ last' = [op |-> "find_cap_exp", cfg |-> last.cfg,
              result |-> pcie_find_cap_exp(last.cfg)]
  /\ UNCHANGED <<pcie_config, pcie_dev_list, pc, e, ret, pass, rc, pcie_parsers, parser_i, pcie_parsers_len, history>>

\* pcie_find_ecap_aer on the configuration space.
FindEcapAer ==
  /\ pc = "walk"
  /\ last.op = "config_space"
  /\ last' = [op |-> "find_ecap_aer", cfg |-> last.cfg,
              result |-> pcie_find_ecap_aer(last.cfg)]
  /\ UNCHANGED <<pcie_config, pcie_dev_list, pc, e, ret, pass, rc, pcie_parsers, parser_i, pcie_parsers_len, history>>

NextWalk ==
  \/ FindCapExp
  \/ FindEcapAer

SpecWalk == InitWalk /\ [][NextWalk]_vars


(***************************************************************************)
(* Vocabulary of the properties: the step recorded in `last'.              *)
(***************************************************************************)
PollOps == {"dev_status", "aer_uncor", "aer_cor"}
AerOps == {"aer_uncor", "aer_cor"}

\* last is the check of one register group of one device.
Polled == last.op \in PollOps

CatalogOf(op) ==
  IF op = "dev_status" THEN pcie_base_errors
  ELSE IF op = "aer_uncor" THEN pcie_aer_ues
  ELSE pcie_aer_ces

CatalogEntries(op) == {CatalogOf(op)[i] : i \in 1..Len(CatalogOf(op))}

SetFmt(op) ==
  IF op = "dev_status" THEN "Device Status Error set: %s"
  ELSE IF op = "aer_uncor" THEN "Uncorrectable(%s) Error set: %s"
  ELSE "Correctable Error set: %s"

ClearedFmt(op) ==
  IF op = "dev_status" THEN "Device Status Error cleared: %s"
  ELSE IF op = "aer_uncor" THEN "Uncorrectable(%s) Error cleared: %s"
  ELSE "Correctable Error cleared: %s"

\* The error description a notification names.
DescOf(n) == n.message.args[Len(n.message.args)]

\* The positions in last.events of the 'set' / 'cleared' events of entry err.
SetEventsOf(err) ==
  {i \in 1..Len(last.events) :
     /\ last.events[i].message.fmt = SetFmt(last.op)
     /\ DescOf(last.events[i]) = err.desc}

ClearedEventsOf(err) ==
  {i \in 1..Len(last.events) :
     /\ last.events[i].message.fmt = ClearedFmt(last.op)
     /\ DescOf(last.events[i]) = err.desc}

\* The device the step was about.
LastDev == pcie_dev_list[last.dev]

\* The severity and type instance a 'set' event of err is to carry.
ExpectedTypeInstance(err) ==
  IF last.op = "dev_status"
  THEN IF err.desc = "Fatal Error" THEN "fatal"
       ELSE IF err.desc = "Correctable Error" THEN "correctable"
       ELSE "non_fatal"
  ELSE IF last.op = "aer_uncor"
  THEN IF err.mask \in last.severity THEN "fatal" ELSE "non_fatal"
  ELSE "correctable"

ExpectedSetSeverity(err) ==
  IF ExpectedTypeInstance(err) = "fatal" THEN "failure" ELSE "warning"

\* Entry err of an AER catalog is set in the mask register read in the step
\* while masked errors are not reported.
MaskedOut(err) ==
  last.op \in AerOps /\ ~pcie_config.notif_masked /\ err.mask \in last.masked


(***************************************************************************)
(* C1.  With persistent mode off, a register group whose value read (the   *)
(* low nibble for Device Status) equals the device's stored baseline       *)
(* dispatches no notification in that cycle.                               *)
(***************************************************************************)
C1_UnchangedNoEvents ==
  (Polled /\ ~pcie_config.persistent /\ last.new = last.old) => last.events = <<>>

\* A non-zero uncorrectable status read again unchanged, nothing dispatched.
C1_Witness ==
  /\ last.op = "aer_uncor"
  /\ ~pcie_config.persistent
  /\ last.new = last.old
  /\ last.new # {}
  /\ ~last.failed
  /\ last.events = <<>>

(***************************************************************************)
(* C2.  As claimed: for every catalog bit b, a poll that reads b set while *)
(* the baseline has b clear dispatches exactly one 'set' event for b with  *)
(* the severity of b's classification, and a poll that reads b clear while *)
(* the baseline has b set dispatches exactly one 'cleared' event for b     *)
(* with severity okay.                                                     *)
(***************************************************************************)
EdgeReported(err) ==
  /\ (err.mask \in last.new /\ err.mask \notin last.old) =>
       /\ Cardinality(SetEventsOf(err)) = 1
       /\ \A i \in SetEventsOf(err) :
            last.events[i].severity = ExpectedSetSeverity(err)
  /\ (err.mask \notin last.new /\ err.mask \in last.old) =>
       /\ Cardinality(ClearedEventsOf(err)) = 1
       /\ \A i \in ClearedEventsOf(err) : last.events[i].severity = "okay"

C2_EveryEdgeReported ==
  Polled => \A err \in CatalogEntries(last.op) : EdgeReported(err)

(***************************************************************************)
(* C2, amended.  The same for every Device Status bit, and for every AER   *)
(* bit that is not set in the mask register read in that poll or when      *)
(* masked-error reporting is on.                                           *)
(***************************************************************************)
C2_UnmaskedEdgeReported ==
  Polled => \A err \in CatalogEntries(last.op) : ~MaskedOut(err) => EdgeReported(err)

\* An uncorrectable bit that an earlier poll found set reads clear: one
\* 'cleared' event with severity okay.
C2_Witness ==
  /\ last.op = "aer_uncor"
  /\ 4 \in last.old
  /\ 4 \notin last.new
  /\ 4 \notin last.masked
  /\ \E i \in 1..Len(last.events) :
       /\ last.events[i].message.fmt = "Uncorrectable(%s) Error cleared: %s"
       /\ DescOf(last.events[i]) = "Data Link Protocol"
       /\ last.events[i].severity = "okay"

(***************************************************************************)
(* C3.  As claimed: with persistent mode on, every catalog bit that reads  *)
(* set in a successful poll gets exactly one 'set' event in that poll,     *)
(* whether or not the baseline already has it (N polls, N events).         *)
(***************************************************************************)
C3_PersistentEveryCycle ==
  (Polled /\ pcie_config.persistent) =>
    \A err \in CatalogEntries(last.op) :
      err.mask \in last.new => Cardinality(SetEventsOf(err)) = 1

(***************************************************************************)
(* C3, amended.  The same for every Device Status bit, and for every AER   *)
(* bit that is not set in the mask register read in that poll or when      *)
(* masked-error reporting is on.                                           *)
(***************************************************************************)
C3_PersistentUnmaskedEveryCycle ==
  (Polled /\ pcie_config.persistent) =>
    \A err \in CatalogEntries(last.op) :
      (err.mask \in last.new /\ ~MaskedOut(err)) => Cardinality(SetEventsOf(err)) = 1

\* A correctable bit the baseline already has reads set again and is reported again.
C3_Witness ==
  /\ last.op = "aer_cor"
  /\ pcie_config.persistent
  /\ 0 \in last.old
  /\ 0 \in last.new
  /\ \E i \in 1..Len(last.events) :
       /\ last.events[i].message.fmt = "Correctable Error set: %s"
       /\ DescOf(last.events[i]) = "Receiver Error Status"

(***************************************************************************)
(* C4.  With masked-error reporting off, an AER bit set in the mask        *)
(* register read in a poll gets no 'set' event in that poll, whatever the  *)
(* status read, the baseline and the persistent flag are.                  *)
(***************************************************************************)
C4_MaskedNeverSet ==
  (last.op \in AerOps /\ ~pcie_config.notif_masked) =>
    \A err \in CatalogEntries(last.op) :
      err.mask \in last.masked => SetEventsOf(err) = {}

\* A masked uncorrectable bit turns from clear to set and nothing is said of it.
C4_Witness ==
  /\ last.op = "aer_uncor"
  /\ ~pcie_config.notif_masked
  /\ 4 \in last.masked
  /\ 4 \in last.new
  /\ 4 \notin last.old
  /\ \A i \in 1..Len(last.events) : DescOf(last.events[i]) # "Data Link Protocol"


(***************************************************************************)
(* C5.  As claimed: when a device's I/O fails in a poll cycle (the device  *)
(* does not open, or a status register read fails), the device's stored    *)
(* baseline is left as it was and no 'cleared' event is dispatched.        *)
(***************************************************************************)
BaselineOf(dev, op) ==
  IF op = "dev_status" THEN dev.device_status
  ELSE IF op = "aer_uncor" THEN dev.uncorrectable_errors
  ELSE dev.correctable_errors

C5_FailureKeepsBaseline ==
  /\ last.op = "open_failed" =>
       /\ <<LastDev.device_status, LastDev.uncorrectable_errors,
            LastDev.correctable_errors>> = last.old
       /\ \A i \in 1..Len(last.events) : last.events[i].severity # "okay"
  /\ (Polled /\ last.failed) =>
       /\ BaselineOf(LastDev, last.op) = last.old
       /\ \A i \in 1..Len(last.events) :
            last.events[i].message.fmt # ClearedFmt(last.op)

(***************************************************************************)
(* C6.  A device that does not open gets exactly one failure notification; *)
(* the pass goes on to every other device of the registry, in order; and   *)
(* the pass returns non-zero iff at least one device did not open.         *)
(***************************************************************************)
C6_OpenFailureReportedPassGoesOn ==
  /\ last.op = "open_failed" =>
       /\ Len(last.events) = 1
       /\ last.events[1].severity = "failure"
       /\ last.events[1].plugin_instance = DevId(LastDev)
       /\ pass[Len(pass)] = [dev |-> last.dev, opened |-> FALSE]
  /\ last.op = "read_end" =>
       /\ Len(pass) = Len(pcie_dev_list)
       /\ \A i \in 1..Len(pass) : pass[i].dev = i
       /\ (rc # 0) <=> (\E i \in 1..Len(pass) : ~pass[i].opened)

\* The first device did not open, the second one was polled, the pass returned -1.
C6_Witness ==
  /\ last.op = "read_end"
  /\ Len(pass) = 2
  /\ ~pass[1].opened
  /\ pass[2].opened
  /\ rc = 0 - 1

(***************************************************************************)
(* C7.  A 'set' event of an uncorrectable bit b has severity failure and   *)
(* type instance fatal iff b is set in the Severity register read in the   *)
(* same poll, else warning and non_fatal; a 'cleared' event has severity   *)
(* okay and the type instance given by the Severity register read in the   *)
(* clearing poll.                                                          *)
(***************************************************************************)
C7_UncorrectableClassification ==
  last.op = "aer_uncor" =>
    \A err \in CatalogEntries("aer_uncor") :
      /\ \A i \in SetEventsOf(err) :
           IF err.mask \in last.severity
           THEN /\ last.events[i].severity = "failure"
                /\ last.events[i].type_instance = "fatal"
           ELSE /\ last.events[i].severity = "warning"
                /\ last.events[i].type_instance = "non_fatal"
      /\ \A i \in ClearedEventsOf(err) :
           /\ last.events[i].severity = "okay"
           /\ last.events[i].type_instance =
                (IF err.mask \in last.severity THEN "fatal" ELSE "non_fatal")

\* A poll reports a bit cleared, classified fatal by the severity read, with severity okay.
C7_Witness ==
  /\ last.op = "aer_uncor"
  /\ \E i \in 1..Len(last.events) :
       /\ last.events[i].message.fmt = "Uncorrectable(%s) Error cleared: %s"
       /\ last.events[i].type_instance = "fatal"
       /\ last.events[i].severity = "okay"

(***************************************************************************)
(* C8.  Static classification.  Device Status: Fatal is fatal / failure,   *)
(* Correctable is correctable / warning, Non-Fatal and Unsupported Request *)
(* are non_fatal / warning; a 'cleared' event has severity okay and the    *)
(* type instance of the bit's 'set' event.  AER correctable: type instance *)
(* correctable, warning on set and okay on clear.                          *)
(***************************************************************************)
StaticTypeInstance(desc) ==
  IF desc = "Fatal Error" THEN "fatal"
  ELSE IF desc = "Correctable Error" THEN "correctable"
  ELSE "non_fatal"

C8_StaticClassification ==
  /\ last.op = "dev_status" =>
       \A i \in 1..Len(last.events) :
         LET n == last.events[i] IN
         /\ DescOf(n) \in {"Fatal Error", "Correctable Error", "Non-Fatal Error",
                           "Unsupported Request"}
         /\ n.type_instance = StaticTypeInstance(DescOf(n))
         /\ n.message.fmt = "Device Status Error set: %s" =>
              n.severity = (IF DescOf(n) = "Fatal Error" THEN "failure" ELSE "warning")
         /\ n.message.fmt = "Device Status Error cleared: %s" => n.severity = "okay"
         /\ n.message.fmt \in {"Device Status Error set: %s",
                               "Device Status Error cleared: %s"}
  /\ last.op = "aer_cor" =>
       \A i \in 1..Len(last.events) :
         LET n == last.events[i] IN
         /\ n.type_instance = "correctable"
         /\ n.message.fmt = "Correctable Error set: %s" => n.severity = "warning"
         /\ n.message.fmt = "Correctable Error cleared: %s" => n.severity = "okay"
         /\ n.message.fmt \in {"Correctable Error set: %s",
                               "Correctable Error cleared: %s"}

\* One Device Status check reports Correctable and Fatal cleared and Non-Fatal
\* and Unsupported Request set.
C8_Witness ==
  /\ last.op = "dev_status"
  /\ Len(last.events) = 4
  /\ \E i \in 1..4 : /\ DescOf(last.events[i]) = "Correctable Error"
                     /\ last.events[i].severity = "okay"
                     /\ last.events[i].type_instance = "correctable"
  /\ \E i \in 1..4 : /\ DescOf(last.events[i]) = "Unsupported Request"
                     /\ last.events[i].severity = "warning"

(***************************************************************************)
(* C9.  Once startup pruning is over every device of the registry has its  *)
(* Express capability offset; a poll reads Device Status only at that      *)
(* offset + PCI_EXP_DEVSTA, and reads AER registers only of devices whose  *)
(* AER offset is not absent, at that offset.                               *)
(***************************************************************************)
AfterPruning == pc \in {"init_pruned", "idle", "poll", "aer_uncor", "aer_cor"}

C9_OnlyDiscoveredOffsetsPolled ==
  /\ AfterPruning =>
       \A i \in 1..Len(pcie_dev_list) : pcie_dev_list[i].cap_exp # Absent
  /\ pc \in {"aer_uncor", "aer_cor"} => pcie_dev_list[e].ecap_aer # Absent
  /\ last.op = "dev_status" =>
       /\ LastDev.cap_exp # Absent
       /\ last.reads = << [pos |-> LastDev.cap_exp + 10, size |-> 2] >>
  /\ last.op \in AerOps =>
       /\ LastDev.ecap_aer # Absent
       /\ \A i \in 1..Len(last.reads) :
            last.reads[i].pos - LastDev.ecap_aer \in
              (IF last.op = "aer_uncor" THEN {4, 8, 12} ELSE {16, 20})
  /\ last.op = "open_failed" => last.reads = <<>>

\* A device without AER has had its Device Status checked and the loop has
\* moved on to the next device.
C9_Witness ==
  /\ last.op = "dev_status"
  /\ LastDev.ecap_aer = Absent
  /\ LastDev.cap_exp = 64
  /\ pc = "poll"
  /\ e = last.dev + 1

(***************************************************************************)
(* C10.  As claimed: after pruning the registry holds exactly the listed   *)
(* devices that opened and in whose config space the capability walk finds *)
(* the Express capability, each with the AER offset the extended walk      *)
(* gives (absent when there is no AER capability).                         *)
(***************************************************************************)
WalkFindsExpress(dev) == pcie_find_cap_exp(ConfigSpace(dev)) >= 0

StatusHasCapList(dev) ==
  (pcie_read16(ConfigSpace(dev), 6) \div 16) % 2 = 1

\* The identities of the devices of devs from position i on that opened and
\* pass the test: the walk finds the capability and, with needList, the
\* Status register has the Capabilities List bit.
RECURSIVE KeptIds(_, _, _, _)
KeptIds(devs, opens, i, needList) ==
  IF i > Len(devs) THEN <<>>
  ELSE (IF /\ i \in opens
           /\ needList => StatusHasCapList(devs[i])
           /\ WalkFindsExpress(devs[i])
        THEN <<DevId(devs[i])>> ELSE <<>>)
       \o KeptIds(devs, opens, i + 1, needList)

RegistryIds == [i \in 1..Len(pcie_dev_list) |-> DevId(pcie_dev_list[i])]

AerOffsetsRecorded ==
  \A i \in 1..Len(pcie_dev_list) :
    /\ pcie_dev_list[i].cap_exp = pcie_find_cap_exp(ConfigSpace(pcie_dev_list[i]))
    /\ pcie_dev_list[i].ecap_aer = pcie_find_ecap_aer(ConfigSpace(pcie_dev_list[i]))

C10_KeptIffWalkFinds ==
  pc = "init_pruned" =>
    /\ RegistryIds = KeptIds(last.devs, last.opens, 1, FALSE)
    /\ AerOffsetsRecorded

(***************************************************************************)
(* C10, amended.  The registry holds exactly the listed devices that       *)
(* opened, whose PCI Status register has the Capabilities List bit set,    *)
(* and in whose config space the capability walk finds the Express         *)
(* capability; the rest as claimed.                                        *)
(***************************************************************************)
C10_KeptIffCapListAndWalkFinds ==
  pc = "init_pruned" =>
    /\ RegistryIds = KeptIds(last.devs, last.opens, 1, TRUE)
    /\ AerOffsetsRecorded

\* Pruning removed a device that opened and kept one without AER.
C10_Witness ==
  /\ pc = "init_pruned"
  /\ Len(pcie_dev_list) = 1
  /\ pcie_dev_list[1].ecap_aer = Absent
  /\ Len(last.devs) = 2
  /\ last.opens = {1, 2}

(***************************************************************************)
(* C11.  pcie_init returns failure when the configuration was flagged      *)
(* invalid, when neither the devices nor the log are read, when the        *)
(* devices are read and pruning leaves no device, and when the log is read *)
(* and a parser fails to initialize; it returns success in none of these   *)
(* cases.                                                                  *)
(***************************************************************************)
InitReturned ==
  /\ pc \in {"idle", "init_failed"}
  /\ last.op \in {"init_refused", "list_failed", "init_end", "init_parsers"}

C11_InitFailure ==
  InitReturned =>
    /\ rc \in {0, 0 - 1}
    /\ pcie_config.config_error => rc = 0 - 1
    /\ ~pcie_config.read_devices /\ ~pcie_config.read_log => rc = 0 - 1
    /\ last.op = "init_end" /\ last.devices = 0 => rc = 0 - 1
    /\ last.op = "init_parsers" /\ last.failed # 0 => rc = 0 - 1
    /\ rc = 0 =>
         /\ ~pcie_config.config_error
         /\ pcie_config.read_devices \/ pcie_config.read_log
         /\ pcie_config.read_devices => Len(pcie_dev_list) > 0
         /\ pcie_config.read_log =>
              /\ pcie_parsers # <<>>
              /\ \A k \in 1..Len(pcie_parsers) : pcie_parsers[k].job = "ok"

\* Devices were found, the first configured parser got its job, the second
\* failed to initialize: pcie_init returned -1.
C11_Witness ==
  /\ InitReturned
  /\ pcie_config.read_devices
  /\ last.op = "init_parsers"
  /\ last.failed = 2
  /\ rc = 0 - 1

(***************************************************************************)
(* Vocabulary of the walks: the chain of entries a configuration space     *)
(* holds, by the number of the entry.                                      *)
(***************************************************************************)
MaxWalk == 5

\* A pointer with its low 2 bits masked off.
Aligned(x) == x - (x % 4)

\* The offset of the k-th entry of the standard capability chain (k >= 1);
\* 0 when the chain ended before it.
RECURSIVE CapEntry(_, _)
CapEntry(cfg, k) ==
  IF k = 1 THEN Aligned(pcie_read8(cfg, PCI_CAPABILITY_LIST))
  ELSE LET prev == CapEntry(cfg, k - 1) IN
       IF prev = 0 THEN 0 ELSE Aligned(pcie_read8(cfg, prev + PCI_CAP_LIST_NEXT))

CapEntryId(cfg, k) == pcie_read8(cfg, CapEntry(cfg, k) + PCI_CAP_LIST_ID)

\* No entry before the k-th ends the walk: each is there and has neither the
\* Express ID nor 0xff.
CapWalkReaches(cfg, k) ==
  \A j \in 1..(k - 1) :
    /\ CapEntry(cfg, j) # 0
    /\ CapEntryId(cfg, j) \notin {PCI_CAP_ID_EXP, 255}

(***************************************************************************)
(* C12.  pcie_find_cap_exp returns the offset of the first entry of the    *)
(* capability chain whose ID is the Express ID, following next pointers    *)
(* with the low 2 bits masked off; it returns absent when the list pointer *)
(* (masked) is 0, when a next pointer is 0 before a match, and when an     *)
(* entry with ID 0xff comes before a match.                                *)
(***************************************************************************)
C12_FirstExpressEntry ==
  last.op = "find_cap_exp" =>
    \A k \in 1..MaxWalk :
      CapWalkReaches(last.cfg, k) =>
        /\ CapEntry(last.cfg, k) = 0 => last.result = Absent
        /\ CapEntry(last.cfg, k) # 0 /\ CapEntryId(last.cfg, k) = 255 =>
             last.result = Absent
        /\ CapEntry(last.cfg, k) # 0 /\ CapEntryId(last.cfg, k) = PCI_CAP_ID_EXP =>
             last.result = CapEntry(last.cfg, k)

\* The list pointer has low bits set, the first entry is not the Express
\* capability, its next pointer has low bits set, and the second entry is.
C12_Witness ==
  /\ last.op = "find_cap_exp"
  /\ pcie_read8(last.cfg, PCI_CAPABILITY_LIST) % 4 # 0
  /\ CapWalkReaches(last.cfg, 2)
  /\ pcie_read8(last.cfg, CapEntry(last.cfg, 1) + PCI_CAP_LIST_NEXT) % 4 # 0
  /\ CapEntryId(last.cfg, 2) = PCI_CAP_ID_EXP
  /\ last.result = CapEntry(last.cfg, 2)
  /\ last.result = 72

(***************************************************************************)
(* C13.  pcie_find_cap_exp terminates on every configuration space, also   *)
(* when the next pointers form a cycle without the Express ID and without  *)
(* 0xff.                                                                   *)
(***************************************************************************)
C13_CapWalkTerminates ==
  last.op = "find_cap_exp" => last.result # Hang

\* The ID and the next pointer of the extended capability header at pos.
ExtId(cfg, pos) == pcie_read32(cfg, pos) % 65536
ExtNext(cfg, pos) == Aligned((pcie_read32(cfg, pos) \div 1048576) % 4096)

\* The offset of the k-th header after the one at 0x100 (k >= 1), following
\* next pointers; 0 when the list ended before it.  ExtEntry(cfg, 0) is 0x100.
RECURSIVE ExtEntry(_, _)
ExtEntry(cfg, k) ==
  IF k = 0 THEN PCIE_ECAP_OFFSET
  ELSE LET prev == ExtEntry(cfg, k - 1) IN
       IF prev = 0 THEN 0 ELSE ExtNext(cfg, prev)

\* The header at 0x100 neither ends the walk nor is the AER header.
ExtWalkGoesOn(cfg) ==
  /\ ~(ExtId(cfg, PCIE_ECAP_OFFSET) = 0 /\ ExtNext(cfg, PCIE_ECAP_OFFSET) = 0)
  /\ ExtId(cfg, PCIE_ECAP_OFFSET) # PCI_EXT_CAP_ID_ERR

\* Every header from the first to the (k - 1)-th after it is there and is not
\* the AER header.
ExtWalkReaches(cfg, k) ==
  \A j \in 1..(k - 1) :
    /\ ExtEntry(cfg, j) # 0
    /\ ExtId(cfg, ExtEntry(cfg, j)) # PCI_EXT_CAP_ID_ERR

\* The same, and every next pointer followed exceeds 0x100.
ExtWalkReachesForward(cfg, k) ==
  \A j \in 1..(k - 1) :
    /\ ExtEntry(cfg, j) > PCIE_ECAP_OFFSET
    /\ ExtId(cfg, ExtEntry(cfg, j)) # PCI_EXT_CAP_ID_ERR

\* What the walk returns at the header at 0x100 itself.
ExtWalkAtStart(cfg, result) ==
  /\ ExtId(cfg, PCIE_ECAP_OFFSET) = 0 /\ ExtNext(cfg, PCIE_ECAP_OFFSET) = 0 =>
       result = Absent
  /\ ExtId(cfg, PCIE_ECAP_OFFSET) = PCI_EXT_CAP_ID_ERR => result = PCIE_ECAP_OFFSET

(***************************************************************************)
(* C14, as claimed.  pcie_find_ecap_aer returns absent when the header at  *)
(* 0x100 has ID 0 and next pointer 0, and 0x100 when that header has the   *)
(* AER ID; otherwise it returns the offset of the first header reached     *)
(* through next pointers whose ID is the AER ID, or absent when a next     *)
(* pointer is 0.                                                           *)
(***************************************************************************)
C14_FirstAerHeader ==
  last.op = "find_ecap_aer" =>
    /\ ExtWalkAtStart(last.cfg, last.result)
    /\ ExtWalkGoesOn(last.cfg) =>
         \A k \in 1..MaxWalk :
           ExtWalkReaches(last.cfg, k) =>
             /\ ExtEntry(last.cfg, k) = 0 => last.result = Absent
             /\ /\ ExtEntry(last.cfg, k) # 0
                /\ ExtId(last.cfg, ExtEntry(last.cfg, k)) = PCI_EXT_CAP_ID_ERR
                => last.result = ExtEntry(last.cfg, k)

(***************************************************************************)
(* C14, amended.  The same, where the headers reached are those reached    *)
(* through next pointers that exceed 0x100: the walk returns absent when a *)
(* next pointer is 0 or does not exceed 0x100.                             *)
(***************************************************************************)
C14_FirstAerHeaderForward ==
  last.op = "find_ecap_aer" =>
    /\ ExtWalkAtStart(last.cfg, last.result)
    /\ ExtWalkGoesOn(last.cfg) =>
         \A k \in 1..MaxWalk :
           ExtWalkReachesForward(last.cfg, k) =>
             /\ ExtEntry(last.cfg, k) <= PCIE_ECAP_OFFSET => last.result = Absent
             /\ /\ ExtEntry(last.cfg, k) > PCIE_ECAP_OFFSET
                /\ ExtId(last.cfg, ExtEntry(last.cfg, k)) = PCI_EXT_CAP_ID_ERR
                => last.result = ExtEntry(last.cfg, k)

\* The header at 0x100 and the one at 0x140 are not the AER header, the one
\* at 0x180 is: the walk returns 0x180.
C14_Witness ==
  /\ last.op = "find_ecap_aer"
  /\ ExtWalkGoesOn(last.cfg)
  /\ ExtWalkReachesForward(last.cfg, 2)
  /\ ExtEntry(last.cfg, 1) = 320
  /\ ExtEntry(last.cfg, 2) = 384
  /\ ExtId(last.cfg, 384) = PCI_EXT_CAP_ID_ERR
  /\ last.result = 384

(***************************************************************************)
(* C15.  pcie_find_ecap_aer never loops on malformed links: when a header  *)
(* of the list has a next pointer that goes backward or to the header      *)
(* itself, the walk terminates, and returns absent or the offset of an AER *)
(* header.                                                                 *)
(***************************************************************************)
\* The k-th header of the list is there and its next pointer goes backward
\* or to the header itself.
ExtBackLink(cfg, k) ==
  /\ ExtEntry(cfg, k) # 0
  /\ ExtNext(cfg, ExtEntry(cfg, k)) # 0
  /\ ExtNext(cfg, ExtEntry(cfg, k)) <= ExtEntry(cfg, k)

C15_AerWalkTerminates ==
  /\ last.op = "find_ecap_aer"
  /\ \E k \in 0..MaxWalk : ExtBackLink(last.cfg, k)
  => /\ last.result # Hang
     /\ \/ last.result = Absent
        \/ ExtId(last.cfg, last.result) = PCI_EXT_CAP_ID_ERR

(***************************************************************************)
(* Vocabulary of the log path: the messages a read delivered and the       *)
(* events dispatched for them, in `last'.                                  *)
(***************************************************************************)
UpperLetters == <<"A", "B", "C", "D", "E", "F", "G", "H", "I", "J", "K", "L", "M", "N", "O", "P", "Q", "R", "S", "T", "U", "V", "W", "X", "Y", "Z">>
LowerLetters == <<"a", "b", "c", "d", "e", "f", "g", "h", "i", "j", "k", "l", "m", "n", "o", "p", "q", "r", "s", "t", "u", "v", "w", "x", "y", "z">>

LowerChar(c) ==
  IF \E k \in 1..Len(UpperLetters) : UpperLetters[k] = c
  THEN LowerLetters[CHOOSE k \in 1..Len(UpperLetters) : UpperLetters[k] = c]
  ELSE c

\* The lower-case form of a text.
LowerCase(value) == [k \in 1..Len(value) |-> LowerChar(value[k])]

\* The text holds the word.
Contains(word, value) ==
  \E start \in 1..(Len(value) - Len(word) + 1) :
    SubSeq(value, start, start + Len(word) - 1) = word

\* The text holds the word, in any letter case.
ContainsAnyCase(word, value) == Contains(LowerCase(word), LowerCase(value))

\* last is a successful read of a parser's messages.
LogRead == last.op = "log_read" /\ ~last.failed

\* Field k of the message is its severity field, and the fields before it
\* and the field itself have values.
SeverityFieldAt(msg, k) ==
  /\ msg[k].name = PCIE_LOG_SEVERITY
  /\ \A j \in 1..k : msg[j].value # <<>>

(***************************************************************************)
(* C16.  A severity value that contains "Non-Fatal" is classified          *)
(* non_fatal with severity warning, never fatal; a value that contains     *)
(* "Fatal" and not "Non-Fatal" is classified fatal with severity failure;  *)
(* any other value is classified correctable with severity warning.  The   *)
(* texts are matched in any letter case.                                   *)
(***************************************************************************)
C16_SeverityByText ==
  LogRead =>
    \A m \in 1..Len(last.msgs) : \A k \in 1..Len(last.msgs[m]) :
      SeverityFieldAt(last.msgs[m], k) =>
        LET value == last.msgs[m][k].value
            ev == last.events[m]
        IN IF ContainsAnyCase(<<"n", "o", "n", "-", "f", "a", "t", "a", "l">>, value)
           THEN ev.type_instance = "non_fatal" /\ ev.severity = "warning"
           ELSE IF ContainsAnyCase(<<"f", "a", "t", "a", "l">>, value)
           THEN ev.type_instance = "fatal" /\ ev.severity = "failure"
           ELSE ev.type_instance = "correctable" /\ ev.severity = "warning"

(***************************************************************************)
(* C17.  The classification of a severity value is that of its lower-case  *)
(* form, for every letter-case variant of the value.                       *)
(***************************************************************************)
C17_CaseInsensitive ==
  LogRead =>
    \A m \in 1..Len(last.msgs) : \A k \in 1..Len(last.msgs[m]) :
      SeverityFieldAt(last.msgs[m], k) =>
        /\ last.events[m].type_instance =
             SeverityClass(LowerCase(last.msgs[m][k].value)).type_instance
        /\ last.events[m].severity =
             SeverityClass(LowerCase(last.msgs[m][k].value)).severity

(***************************************************************************)
(* C18.  For each message the parser delivers exactly one event is         *)
(* dispatched; its plugin instance is the value of the device field, and   *)
(* every other field with a non-empty value that is not the severity field *)
(* is in the event's metadata under its own name, whatever its position    *)
(* and whether or not an optional field before it is empty.                *)
(***************************************************************************)
C18_OneEventWithMetadata ==
  LogRead =>
    /\ Len(last.events) = Len(last.msgs)
    /\ \A m \in 1..Len(last.msgs) : \A k \in 1..Len(last.msgs[m]) :
         LET item == last.msgs[m][k]
             ev == last.events[m]
         IN /\ item.name = PCIE_LOG_DEV => ev.plugin_instance = item.value
            /\ /\ item.value # <<>>
               /\ item.name # PCIE_LOG_DEV
               /\ item.name # PCIE_LOG_SEVERITY
               => \E j \in 1..Len(ev.meta) :
                    ev.meta[j] = [key |-> item.name, value |-> item.value]

(***************************************************************************)
(* C19.  When message_parser_read fails for a parser, exactly one          *)
(* notification of severity failure is dispatched and none for a message;  *)
(* the cycle ends there, no parser after it is read in that cycle, and     *)
(* pcie_plugin_read returns -1.  The next cycle reads the parsers from the *)
(* first, one after the other, and a cycle that reads the log returns 0    *)
(* only after it has read every parser.                                    *)
(***************************************************************************)
C19_LogFailureEndsCycle ==
  [][ /\ (last'.op = "log_read" /\ last' # last) =>
           /\ pc = "log"
           /\ last'.parser = parser_i
           /\ last'.failed =>
                /\ last'.msgs = <<>>
                /\ Len(last'.events) = 1
                /\ last'.events[1].severity = "failure"
                /\ last'.events[1].type = ""
                /\ pc' = "idle"
                /\ rc' = 0 - 1
           /\ ~last'.failed => pc' = "log" /\ parser_i' = parser_i + 1
      /\ (pc = "idle" /\ pc' = "log") => parser_i' = 1
      /\ (pc = "log" /\ pc' = "idle" /\ last'.op = "read_end") =>
           /\ parser_i = Len(pcie_parsers) + 1
           /\ rc' = 0
    ]_vars

\* After a cycle in which a read failed (the cycle returned -1), the next
\* cycle has read the first of two parsers again and dispatched an event for
\* its message.
C19_Witness ==
  /\ pc = "log"
  /\ rc = 0 - 1
  /\ Len(pcie_parsers) = 2
  /\ last.op = "log_read"
  /\ ~last.failed
  /\ last.parser = 1
  /\ Len(last.events) = 1

(***************************************************************************)
(* C20.  A 16-bit slot value v of the flat device table gives the device   *)
(* record bus = v >> 8, device = (v >> 3) & 0x1f, function = v & 0x07 and  *)
(* domain = 0; 0x0300 gives bus 3, device 0, function 0; and v is          *)
(* recovered from (bus, device, function), so the mapping is injective.    *)
(***************************************************************************)
C20_SlotDecoding ==
  last.op = "list_proc" =>
    /\ Len(pcie_dev_list) = Len(last.slots)
    /\ \A k \in 1..Len(last.slots) :
         LET v == last.slots[k]
             dev == pcie_dev_list[k]
         IN v < 65536 =>
              /\ dev.bus = v \div 256
              /\ dev.device = (v \div 8) % 32
              /\ dev.function = v % 8
              /\ dev.domain = 0
              /\ v = 768 => dev.bus = 3 /\ dev.device = 0 /\ dev.function = 0
              /\ v = 256 * dev.bus + 8 * dev.device + dev.function

\* The line 02fb: bus 2, device 31, function 3.
C20_Witness ==
  /\ last.op = "list_proc"
  /\ last.slots = <<763>>
  /\ Len(pcie_dev_list) = 1
  /\ pcie_dev_list[1].bus = 2
  /\ pcie_dev_list[1].device = 31
  /\ pcie_dev_list[1].function = 3

(***************************************************************************)
(* C22.  When a poll of a device that opened has read a register, the      *)
(* device's stored baseline for that register is the value the read        *)
(* returned: Device Status cut to its low 4 bits, the uncorrectable and    *)
(* the correctable status whole; this holds when no event was dispatched   *)
(* and when bits were skipped because they are masked.                     *)
(***************************************************************************)
C22_BaselineIsValueRead ==
  /\ last.op = "dev_status" =>
       /\ pcie_dev_list[last.dev].device_status = last.new
       /\ last.new \subseteq 0..3
       /\ pass[Len(pass)] = [dev |-> last.dev, opened |-> TRUE]
  /\ last.op = "aer_uncor" =>
       /\ pcie_dev_list[last.dev].uncorrectable_errors = last.new
       /\ pass[Len(pass)] = [dev |-> last.dev, opened |-> TRUE]
  /\ last.op = "aer_cor" =>
       /\ pcie_dev_list[last.dev].correctable_errors = last.new
       /\ pass[Len(pass)] = [dev |-> last.dev, opened |-> TRUE]

\* The uncorrectable status was read with a new bit set that is masked: the
\* dispatch function was called, skipped the bit and dispatched nothing, and
\* the value read is the baseline.
C22_Witness ==
  /\ last.op = "aer_uncor"
  /\ ~last.failed
  /\ last.dispatched
  /\ last.events = <<>>
  /\ last.new = {4}
  /\ last.old = {}
  /\ last.masked = {4}
  /\ pcie_dev_list[last.dev].uncorrectable_errors = {4}

(***************************************************************************)
(* C23.  No step of a poll cycle adds or removes a device or changes a     *)
(* device's identity, its capability offset or its AER offset; a step that *)
(* polls the device at e changes nothing but that device's three snapshot  *)
(* fields, and no field of any other device.                               *)
(***************************************************************************)
InPollCycle == pc \in {"poll", "aer_uncor", "aer_cor"}

C23_PollKeepsRegistry ==
  [][ (InPollCycle \/ InPollCycle') =>
        /\ Len(pcie_dev_list') = Len(pcie_dev_list)
        /\ \A k \in 1..Len(pcie_dev_list) :
             /\ DevId(pcie_dev_list'[k]) = DevId(pcie_dev_list[k])
             /\ pcie_dev_list'[k].cap_exp = pcie_dev_list[k].cap_exp
             /\ pcie_dev_list'[k].ecap_aer = pcie_dev_list[k].ecap_aer
             /\ k # e => pcie_dev_list'[k] = pcie_dev_list[k]
    ]_vars

\* Two devices are registered; the poll of the second has changed its Device
\* Status snapshot while the first keeps the snapshot of its own poll.
C23_Witness ==
  /\ Len(pcie_dev_list) = 2
  /\ last.op = "dev_status"
  /\ last.dev = 2
  /\ last.new # last.old
  /\ pcie_dev_list[2].device_status = last.new
  /\ pcie_dev_list[1].device_status # {}
  /\ pcie_dev_list[1].device_status # last.new

(***************************************************************************)
(* C25.  With persistent notifications off, the events of one Device       *)
(* Status bit of one device alternate set, cleared, set, ..., beginning    *)
(* with set: a poll dispatches at most one event for the bit, a set event  *)
(* only when the last event for the bit was not a set event (or there was  *)
(* none), a cleared event only when the last event for the bit was a set   *)
(* event; a cycle in which the device does not open dispatches neither.    *)
(***************************************************************************)
DevStatusSet(events) ==
  NotifiedBits(events, "Device Status Error set: %s", pcie_base_errors)

DevStatusCleared(events) ==
  NotifiedBits(events, "Device Status Error cleared: %s", pcie_base_errors)

C25_DevStatusAlternates ==
  [][ (~pcie_config.persistent /\ pc = "poll" /\ pass' # pass) =>
        /\ last'.op \in {"dev_status", "open_failed"}
        /\ \A b \in DevStatusSet(last'.events) : <<e, b>> \notin history.status_set
        /\ \A b \in DevStatusCleared(last'.events) : <<e, b>> \in history.status_set
        /\ last'.op = "dev_status" =>
             Len(last'.events) = Cardinality(DevStatusSet(last'.events))
                                 + Cardinality(DevStatusCleared(last'.events))
        /\ last'.op = "open_failed" =>
             /\ DevStatusSet(last'.events) = {}
             /\ DevStatusCleared(last'.events) = {}
             /\ history' = history
    ]_vars

\* Bits 1 and 3 of a device had their set events in an earlier poll; this
\* poll has dispatched their cleared events and the set events of bits 0 and 2.
C25_Witness ==
  /\ ~pcie_config.persistent
  /\ last.op = "dev_status"
  /\ last.old = {1, 3}
  /\ last.new = {0, 2}
  /\ DevStatusSet(last.events) = {0, 2}
  /\ DevStatusCleared(last.events) = {1, 3}
  /\ history.status_set = {<<last.dev, 0>>, <<last.dev, 2>>}

(***************************************************************************)
(* C26.  With persistent notifications and the reporting of masked errors  *)
(* both off, every AER catalog bit that the latest poll of a device read   *)
(* set in the status register and clear in the mask register has had its   *)
(* set event dispatched in or after the poll in which it last went from    *)
(* clear to set.                                                           *)
(***************************************************************************)
C26_UnmaskedSetBitWasReported ==
  (/\ ~pcie_config.persistent
   /\ ~pcie_config.notif_masked
   /\ last.op \in {"aer_uncor", "aer_cor"}
   /\ ~last.failed
   /\ last.dispatched) =>
     \A b \in last.new \ last.masked :
        <<last.dev, IF last.op = "aer_uncor" THEN "uncor" ELSE "cor", b>>
          \notin history.unreported

(***************************************************************************)
(* C28.  When FirstFullRead is configured, the first read of every log     *)
(* parser is made with the replay flag on and every later read of it with  *)
(* the flag off, whatever cycles came before (cycles whose device poll     *)
(* failed, cycles that an earlier parser's failed read ended); and once    *)
(* the flag is off after start-up it is never on again.                    *)
(***************************************************************************)
C28_FirstReadReplays ==
  [][ /\ (history.replay /\ pc = "log" /\ parser_i' # parser_i /\ last'.op = "log_read") =>
           (last'.first_read <=> parser_i \notin history.parsers_read)
      /\ (pc # "loaded" /\ ~pcie_config.first_read) => ~pcie_config'.first_read
    ]_vars

(***************************************************************************)
(* C27.  Shutdown may run more than once: whatever the configuration and   *)
(* wherever start-up failed, a shutdown touches no parser storage that an  *)
(* earlier shutdown released, and the device list is empty after it.       *)
(***************************************************************************)
C27_ShutdownTwiceIsSafe ==
  last.op = "shutdown" =>
    /\ ~last.null_access
    /\ pc = "shutdown"
    /\ pcie_dev_list = <<>>
    /\ pcie_parsers = <<>>

(***************************************************************************)
(* C24.  With the devices and the log both read: a cycle in which a device *)
(* did not open returns -1 without a read of any parser, and leaves the    *)
(* configuration (the replay flag with it), the parsers and the record of  *)
(* the parsers read as they were before the cycle; a parser is read only   *)
(* in a cycle in which every device opened, and such a cycle starts the    *)
(* loop over the parsers at the first parser whatever the cycles before.   *)
(* The devices that opened in the failed cycle are polled as in any cycle. *)
(***************************************************************************)
AllOpened ==
  /\ Len(pass) = Len(pcie_dev_list)
  /\ \A k \in 1..Len(pass) : pass[k].opened

FailedCycleStep ==
  /\ (InPollCycle \/ InPollCycle') =>
       /\ pcie_config' = pcie_config
       /\ pcie_parsers' = pcie_parsers
       /\ history'.parsers_read = history.parsers_read
       /\ last'.op # "log_read"
  /\ (pc = "poll" /\ e > Len(pcie_dev_list) /\ pcie_config.read_log) =>
       /\ Len(pass) = Len(pcie_dev_list)
       /\ ret < 0 <=> ~AllOpened
       /\ ~AllOpened => /\ pc' = "idle"
                        /\ rc' = 0 - 1
                        /\ last'.op = "read_end"
                        /\ pcie_dev_list' = pcie_dev_list
       /\ AllOpened => pc' = "log" /\ parser_i' = 1
  /\ (pc = "log" /\ last'.op = "log_read" /\ parser_i' # parser_i) => AllOpened

C24_DeviceFailureSkipsLog == [][FailedCycleStep]_vars

\* The cycle before returned -1 because a device did not open; in this cycle
\* every device has opened and the first parser has been read, the replay
\* flag still on.
C24_Witness ==
  /\ pc = "log"
  /\ rc = 0 - 1
  /\ AllOpened
  /\ last.op = "log_read"
  /\ last.parser = 1
  /\ last.first_read
  /\ ~last.failed
  /\ history.parsers_read = {1}

\* C24 as stated: the same, and the cycles after a failed cycle go as if it
\* had not happened, so that once a device has not opened the rest of the
\* cycle changes no device record.
C24_FailedCycleLeavesNoTrace ==
  [][ /\ FailedCycleStep
      /\ (InPollCycle /\ \E k \in 1..Len(pass) : ~pass[k].opened) =>
           pcie_dev_list' = pcie_dev_list
    ]_vars

(***************************************************************************)
(* C21.  Enumeration passes over a malformed item and goes on: for every   *)
(* sequence of directory entries (sysfs) or table lines (proc) the device  *)
(* list holds one record for each well-formed item, in the order of the    *)
(* input, wherever the malformed items stand, and the listing returns 0.   *)
(***************************************************************************)
Hex2(a, b) == 16 * DigitValue(a) + DigitValue(b)

\* dddd:bb:dd.f, hexadecimal but for the function.
SysfsWellFormed(name) ==
  /\ Len(name) = 12
  /\ name[5] = ":" /\ name[8] = ":" /\ name[11] = "."
  /\ \A k \in {1, 2, 3, 4, 6, 7, 9, 10} : IsDigit(name[k], 16)
  /\ IsDigit(name[12], 10)

SysfsId(name) ==
  Bdf(256 * Hex2(name[1], name[2]) + Hex2(name[3], name[4]),
      Hex2(name[6], name[7]), Hex2(name[9], name[10]), DigitValue(name[12]))

\* bbdf, four hexadecimal digits, then the end of the line or a tab.
ProcWellFormed(line) ==
  /\ Len(line) >= 4
  /\ \A k \in 1..4 : IsDigit(line[k], 16)
  /\ Len(line) = 4 \/ line[5] = "\t"

ProcId(line) ==
  Bdf(0, Hex2(line[1], line[2]), Hex2(line[3], line[4]) \div 8,
      Hex2(line[3], line[4]) % 8)

IdsOf(list) == [k \in 1..Len(list) |-> DevId(list[k])]

=============================================================================
